---- MODULE Spec2Model ----
(***************************************************************************)
(* BiomimeticMemoryManager (src/BiomimeticMemoryManager.js): the weight-   *)
(* based memory engine, its fan-out to the backing regions and its         *)
(* consolidation passes, as a state machine.                               *)
(*                                                                         *)
(* Units.  Weights are integers in thousandths (0.89 is 890, 1.0 is 1000). *)
(* Time is in hours (24 h is 24, 7 days is 168, 30 days is 720).           *)
(*                                                                         *)
(* Every step is one turn of the JavaScript event loop: the code between   *)
(* two awaits runs atomically, and the engine's operations interleave at   *)
(* their awaits (the region calls and the access delay).                   *)
(*                                                                         *)
(* The backing regions are external: a region call answers, rejects, or    *)
(* never answers.  Two of the six regions are modelled.                    *)
(*                                                                         *)
(* SafeConfigManager (src/fixes/config-corruption-prevention.js): the      *)
(* config file, its backups and temporary files, the lock map and the      *)
(* readConfig, writeConfig and updateConfig calls, one step per file       *)
(* system call.  A config is the set of its keys.                          *)
(***************************************************************************)
EXTENDS Integers, Sequences, FiniteSets, TLC

(* ------------------------------ bounds -------------------------------- *)

\* operation slots: each is used for one store/retrieve/search/consolidate call
MaxOps == 3
\* records that can be stored (ids 1..MaxStores)
MaxStores == 1
\* clock advances
MaxAdvances == 1
\* calls in flight at the same time
MaxInFlight == 2
\* records of a population stored before the behaviour starts
MaxRecords == 2
\* successful initialize() calls without a shutdown() between them, and
\* shutdown() calls in progress at the same time
MaxInitializes == 2
\* config manager calls in progress at the same time
MaxSlots == 2
\* config manager calls of one behaviour
MaxCalls == 2
\* writeConfig calls of one behaviour of the backup rotation
MaxWrites == 4
\* milliseconds that Date.now() advances
MaxTicks == 1
\* toasts shown in one behaviour
MaxToasts == 3
\* episodic memories stored in one behaviour
MaxEpisodes == 3

(* ------------------------- program constants -------------------------- *)

consciousThreshold == 800
easyRecallThreshold == 600
effortThreshold == 300
subconscciousThreshold == 100
decayRate == 1
consolidationStrength == 100
\* Math.min(1.0, ...): the cap of every strengthening
MaxWeight == 1000
\* memory.weight + 0.01
AccessReinforcement == 10
\* defaults of storeMemory
DefaultInitialWeight == 1000
DefaultEmotionalWeight == 500
DefaultSemanticWeight == 500
\* 24 * 60 * 60 * 1000 ms and 7 * 24 * 60 * 60 * 1000 ms, in hours
RecentWindow == 24
DecayWindow == 168
\* the 30 days of the recency score, in hours
RecencyHorizon == 720
\* searchMemories' default maxResults
DefaultMaxResults == 20

Regions == {"hippocampus", "neocortex"}
\* the order of the region calls in the fan-out arrays
RegionOrder == <<"hippocampus", "neocortex">>

Ops == 1..MaxOps
Ids == 1..MaxStores

Min(a, b) == IF a <= b THEN a ELSE b
Max(a, b) == IF a >= b THEN a ELSE b

(* ------------------------------ records ------------------------------- *)

NoMem ==
    [id |-> 0, weight |-> 0, created |-> 0, lastAccessed |-> 0,
     accessCount |-> 0, emotionalWeight |-> 0, semanticWeight |-> 0]

\* an optional caller-supplied number: omitted, or a value
Omitted == [has |-> FALSE, v |-> 0]
Given(x) == [has |-> TRUE, v |-> x]

\* JavaScript's p || d : the default also replaces a supplied 0
OrDefault(p, d) == IF p.has /\ p.v # 0 THEN p.v ELSE d

VARIABLES
    isInitialized,  \* this.isInitialized
    region,         \* region[r]: the set of records region r holds (one per id)
    ops,            \* ops[o]: the call running in slot o and its locals
    nextId,         \* the next id _generateMemoryId returns
    now,            \* Date.now(), in hours
    advances,       \* clock advances so far
    memoryStats,    \* this.memoryStats (lastConsolidation: -1 is null)
    consolidationTimers, \* this.consolidationTimers: the pass type of each
                    \* interval timer that is set
    shuttingDown,   \* shutdown() calls that wait for the connections to close
    mainFile,       \* the file at this.configPath
    backups,        \* the files configPath.backup.k
    temps,          \* the files configPath.tmp.t, by the timestamp t
    locks,          \* this.locks: the keys of the lock map
    calls,          \* the readConfig, writeConfig and updateConfig calls
    clock,          \* Date.now(), in milliseconds
    callsStarted,   \* config manager calls started so far
    writeLog,       \* the writes of the main file that ended, latest first
    toasts,         \* the toast configs that showToast built, by toast
    queue,          \* ToastManager's this.queue
    isProcessing,   \* ToastManager's this.isProcessing
    hippocampusKeys, \* the episodic:* keys of the hippocampus Redis store
    memoryWeights   \* NeuromorphicBrain's this.memoryWeights

\* the variables of the config manager
configVars == <<mainFile, backups, temps, locks, calls, clock, callsStarted,
               writeLog>>

\* the timers and the shutdown calls of the engine
lifecycle == <<consolidationTimers, shuttingDown>>

\* the variables of the memory engine
engineVars == <<isInitialized, region, ops, nextId, now, advances, memoryStats,
                lifecycle>>

\* the variables of the toast manager
toastVars == <<toasts, queue, isProcessing>>

\* the variables of the first server's brain
brainVars == <<hippocampusKeys, memoryWeights>>

\* the variables outside the memory engine
outside == <<configVars, toastVars, brainVars>>

vars == <<engineVars, configVars, toastVars, brainVars>>

(* ------------------------ the config manager's files ------------------ *)

\* options.backupCount || 3
backupCount == 3
\* options.configPath || 'config.json'
configPath == "config.json"
\* the keys a config can have, and the configs
Keys == {"a", "b"}
Configs == SUBSET Keys
\* options.defaultConfig || {}
defaultConfig == {}
\* options.validateOnRead !== false
validateOnRead == TRUE
\* a JSON value that is not an object (null, a number, a string), as a value
\* and as the content of a file
Scalar == {"<scalar>"}
\* validateConfig, lines 168-172: the value is a non-null object
validateConfig(config) == config # Scalar

\* the content of a file: it does not exist, it holds text that JSON.parse
\* rejects (nothing, or a part of a document), or it holds the JSON of a
\* config; fd is the set of calls that hold the file open for writing
Absent == [st |-> "absent", keys |-> {}, fd |-> {}]
Partial == [st |-> "partial", keys |-> {}, fd |-> {}]
Json(config) == [st |-> "json", keys |-> config, fd |-> {}]

Slots == 1..MaxSlots
BackupIndexes == 1..(backupCount + 1)
TempPaths == 0..MaxTicks

IdleCall ==
    [kind |-> "none", pc |-> "idle", phase |-> "none", config |-> {},
     updates |-> {}, createBackup |-> FALSE, enableRecovery |-> TRUE,
     defaultConfig |-> defaultConfig, i |-> 0, tempPath |-> 0, result |-> "none"]

\* a manager that was just constructed, with the files a disk holds
ConfigOn(main, backup) ==
    /\ mainFile = main
    /\ backups = backup
    /\ temps = [t \in TempPaths |-> Absent]
    /\ locks = {}
    /\ calls = [c \in Slots |-> IdleCall]
    /\ clock = 0
    /\ callsStarted = 0
    /\ writeLog = <<>>

NoBackups == [k \in BackupIndexes |-> Absent]

\* a manager that was just constructed in an empty directory
ConfigFresh == ConfigOn(Absent, NoBackups)

(* ------------------- the toast manager and the brain ------------------ *)

Toasts == 1..MaxToasts

\* options.timeout || 5000, options.maxRetries || 3, options.retryDelay || 1000
defaultTimeout == 5000
maxRetries == 3
retryDelay == 1000

\* a toast that showToast was not called for yet
NoToast ==
    [pc |-> "new", retries |-> 0, attempts |-> 0, waits |-> <<>>, fallbacks |-> 0,
     timeout |-> 0, maxRetries |-> 0, last |-> "none", result |-> "none"]

\* a ToastManager that was just constructed (lines 18-27)
ToastFresh ==
    /\ toasts = [t \in Toasts |-> NoToast]
    /\ queue = <<>>
    /\ isProcessing = FALSE

\* a NeuromorphicBrain that was just constructed (lines 26-30) over an empty
\* hippocampus store
BrainFresh ==
    /\ hippocampusKeys = {}
    /\ memoryWeights = <<>>

(* --------------------------- pure functions --------------------------- *)

\* an access delay whose thresholds are exclusive
_calculateAccessDelay_exclusive(weight) ==
    IF weight > consciousThreshold THEN 0
    ELSE IF weight > easyRecallThreshold THEN 100
    ELSE IF weight > effortThreshold THEN 500
    ELSE IF weight > subconscciousThreshold THEN 1500
    ELSE 3000

_calculateAccessDelay(weight) ==
    IF weight >= consciousThreshold THEN 0
    ELSE IF weight >= easyRecallThreshold THEN 100
    ELSE IF weight >= effortThreshold THEN 500
    ELSE IF weight >= subconscciousThreshold THEN 1500
    ELSE 3000

\* Math.max(0, 1 - Math.min(daysSinceCreated, daysSinceAccessed) / 30),
\* times RecencyHorizon
_calculateRecencyScore(memory, t) ==
    Max(0, RecencyHorizon - Min(t - memory.created, t - memory.lastAccessed))

\* the importance times 7,200,000:
\*   0.3 * recency/720 + 0.25 * accessCount/100
\*   + 0.25 * emotionalWeight/1000 + 0.2 * semanticWeight/1000
_calculateImportance(memory, t) ==
    3000 * _calculateRecencyScore(memory, t)
    + 18000 * memory.accessCount
    + 1800 * memory.emotionalWeight
    + 1440 * memory.semanticWeight

\* importance > 0.7 and importance > 0.5 on that scale
ImportanceAbove07(memory, t) == _calculateImportance(memory, t) > 5040000
ImportanceAbove05(memory, t) == _calculateImportance(memory, t) > 3600000

_isRecent(memory, t, window) == (t - memory.lastAccessed) < window

\* The reinforcement without its cap at 1.0 (what line 229 would be without Math.min)
Reinforce_uncapped(memory, t) ==
    [memory EXCEPT !.lastAccessed = t,
                   !.accessCount = @ + 1,
                   !.weight = @ + AccessReinforcement]

\* lines 227-229: retrieveMemory's update of the access statistics
Reinforce(memory, t) ==
    [memory EXCEPT !.lastAccessed = t,
                   !.accessCount = @ + 1,
                   !.weight = Min(MaxWeight, @ + AccessReinforcement)]

\* a strengthening that does not look at the importance
Strengthen_unconditional(memory, type, t) ==
    IF type = "sws"
    THEN IF _isRecent(memory, t, RecentWindow)
         THEN [memory EXCEPT !.weight = Min(MaxWeight, @ + consolidationStrength)]
         ELSE memory
    ELSE [memory EXCEPT !.weight = Min(MaxWeight, @ + (consolidationStrength \div 2))]

\* the strengthening of one record by a pass of the given type
Strengthen(memory, type, t) ==
    IF type = "sws"
    THEN IF ImportanceAbove07(memory, t) /\ _isRecent(memory, t, RecentWindow)
         THEN [memory EXCEPT !.weight = Min(MaxWeight, @ + consolidationStrength)]
         ELSE memory
    ELSE IF type = "rem"
    THEN IF ImportanceAbove05(memory, t)
         THEN [memory EXCEPT !.weight = Min(MaxWeight, @ + (consolidationStrength \div 2))]
         ELSE memory
    ELSE memory

\* a decay that does not look at the last access
Decay_everywhere(memory, t) == [memory EXCEPT !.weight = Max(0, @ - decayRate)]

\* the natural decay of one record
Decay(memory, t) ==
    IF ~_isRecent(memory, t, DecayWindow)
    THEN [memory EXCEPT !.weight = Max(0, @ - decayRate)]
    ELSE memory

\* the body of performConsolidation's map callback, up to the write-back
ConsolidateOne(memory, type, t) == Decay(Strengthen(memory, type, t), t)

(* ------------------------------ regions ------------------------------- *)

\* readById at region r
Lookup(r, id) == {m \in region[r] : m.id = id}

\* write at region r: replace by id
Put(held, rec) == {m \in held : m.id # rec.id} \cup {rec}

\* the Router's default policy: every record goes to every region
RouterTargets == Regions

(* ---------------------------- operations ------------------------------ *)

NoResp == [st |-> "none", val |-> NoMem, list |-> <<>>]
NoResult == [st |-> "none", mem |-> NoMem, list |-> <<>>, n |-> 0]

IdleOp ==
    [kind |-> "none", pc |-> "idle", id |-> 0, found |-> NoMem, mem |-> NoMem,
     delay |-> 0,
     resp |-> [r \in Regions |-> NoResp],
     writes |-> {}, landed |-> {}, snapshot |-> {}, changed |-> {},
     options |-> [maxResults |-> Omitted, minWeight |-> Omitted, sortBy |-> "weight"],
     opts |-> [minWeight |-> 0, maxResults |-> 0, sortBy |-> "weight"],
     result |-> NoResult]

\* _distributeMemory / _updateMemoryAcrossRegions: one write per target region
FanOut(rec) == {[region |-> r, rec |-> rec] : r \in RouterTargets}

\* the effect of one region's answer to a write: it lands, or it is rejected
Landed(w, ok) == IF ok THEN [region EXCEPT ![w.region] = Put(@, w.rec)] ELSE region

\* calls that have not returned or thrown
InFlight == {o \in Ops : ops[o].pc \notin {"idle", "done", "failed"}}

\* slots are taken in order
CanStart(o) ==
    /\ isInitialized
    /\ ops[o].pc = "idle"
    /\ \A p \in Ops : p < o => ops[p].pc # "idle"
    /\ Cardinality(InFlight) < MaxInFlight

EngineFresh ==
    /\ isInitialized = FALSE
    /\ region = [r \in Regions |-> {}]
    /\ ops = [o \in Ops |-> IdleOp]
    /\ nextId = 1
    /\ now = 0
    /\ advances = 0
    /\ memoryStats = [totalMemories |-> 0, consciousMemories |-> 0,
                      consolidationsPerformed |-> 0, lastConsolidation |-> -1]
    /\ consolidationTimers = <<>>
    /\ shuttingDown = 0

Init == EngineFresh /\ ConfigFresh /\ ToastFresh /\ BrainFresh

\* _startConsolidationCycles: one interval timer for each pass type
NewTimers == <<"sws", "rem">>

\* initialize(), once the region connections answered: they succeeded (lines
\* 131-139: the consolidation timers are set, consolidation.enabled being true,
\* and the engine is initialized), or one was rejected and initialize throws
Initialize(ok) ==
    /\ ok => Len(consolidationTimers) < Len(NewTimers) * MaxInitializes
    /\ consolidationTimers' = IF ok THEN consolidationTimers \o NewTimers
                              ELSE consolidationTimers
    /\ isInitialized' = IF ok THEN TRUE ELSE isInitialized
    /\ UNCHANGED <<outside, shuttingDown, region, ops, nextId, now, advances,
                   memoryStats>>

\* shutdown(), lines 428-464: every timer is cleared and the connections are
\* asked to close
ShutdownStart ==
    /\ shuttingDown < MaxInitializes
    /\ consolidationTimers' = <<>>
    /\ shuttingDown' = shuttingDown + 1
    /\ UNCHANGED <<outside, isInitialized, region, ops, nextId, now, advances,
                   memoryStats>>

\* shutdown(), lines 465-469: the connections closed and the engine is no
\* longer initialized, or a close was rejected and the error is only logged
ShutdownDone(ok) ==
    /\ shuttingDown > 0
    /\ shuttingDown' = shuttingDown - 1
    /\ isInitialized' = IF ok THEN FALSE ELSE isInitialized
    /\ UNCHANGED <<outside, consolidationTimers, region, ops, nextId, now,
                   advances, memoryStats>>

AdvanceClock(d) ==
    /\ advances < MaxAdvances
    /\ now' = now + d
    /\ advances' = advances + 1
    /\ UNCHANGED <<lifecycle, outside, isInitialized, region, ops, nextId, memoryStats>>

(* storeMemory *)

NewMemory(p, id, t) ==
    [id |-> id,
     weight |-> OrDefault(p.initialWeight, DefaultInitialWeight),
     created |-> t, lastAccessed |-> t, accessCount |-> 0,
     emotionalWeight |-> OrDefault(p.emotionalWeight, DefaultEmotionalWeight),
     semanticWeight |-> OrDefault(p.semanticWeight, DefaultSemanticWeight)]

\* lines 152-172: the record is built and its writes are fanned out
StoreStart(o, p) ==
    /\ CanStart(o)
    /\ nextId <= MaxStores
    /\ LET memory == NewMemory(p, nextId, now) IN
       ops' = [ops EXCEPT ![o] = [IdleOp EXCEPT !.kind = "store", !.pc = "writing",
                                                !.id = nextId, !.mem = memory,
                                                !.writes = FanOut(memory)]]
    /\ nextId' = nextId + 1
    /\ UNCHANGED <<lifecycle, outside, isInitialized, region, now, advances, memoryStats>>

\* lines 173-189: a region answers one write of the store fan-out.
\* await Promise.all(storagePromises) throws on the first rejected write (the
\* other writes stay in flight), and returns the id once every write resolved.
StoreWrite(o, w, ok) ==
    /\ ops[o].kind = "store"
    /\ w \in ops[o].writes
    /\ region' = Landed(w, ok)
    /\ LET left == ops[o].writes \ {w}
           returns == ops[o].pc = "writing" /\ ok /\ left = {} IN
       /\ ops' = [ops EXCEPT
                    ![o].writes = left,
                    ![o].pc = IF @ = "writing" /\ ~ok THEN "failed"
                              ELSE IF returns THEN "done" ELSE @,
                    ![o].result = IF ops[o].pc = "writing" /\ ~ok
                                  THEN [NoResult EXCEPT !.st = "error"]
                                  ELSE IF returns
                                  THEN [NoResult EXCEPT !.st = "id", !.n = ops[o].id]
                                  ELSE @]
       /\ memoryStats' =
            IF returns
            THEN [memoryStats EXCEPT
                    !.totalMemories = @ + 1,
                    !.consciousMemories =
                        IF ops[o].mem.weight >= consciousThreshold THEN @ + 1 ELSE @]
            ELSE memoryStats
    /\ UNCHANGED <<lifecycle, outside, isInitialized, nextId, now, advances>>

\* calculateMemoryWeight of the first server (src/src/neuromorphic-mcp-server.js):
\* Math.min(1.0, 0.6 + importance * 0.3 + emotional * 0.1), importance and
\* emotional in thousandths
calculateMemoryWeight(importance, emotional) ==
    Min(MaxWeight, (6000 + 3 * importance + emotional) \div 10)

(* retrieveMemory *)

\* the ids a caller can ask for: the id of a record some region holds (store
\* returned it, or a search showed it), or an id that no record has
UnknownId == MaxStores + 1
KnownIds == {m.id : m \in UNION {region[r] : r \in Regions}}

\* lines 197-212: the reads are issued, one per region
RetrieveStart(o, id) ==
    /\ CanStart(o)
    /\ id \in KnownIds \cup {UnknownId}
    /\ ops' = [ops EXCEPT ![o] =
                 [IdleOp EXCEPT !.kind = "retrieve", !.pc = "reading", !.id = id,
                                !.resp = [r \in Regions |-> [NoResp EXCEPT !.st = "pending"]]]]
    /\ UNCHANGED <<lifecycle, outside, isInitialized, region, nextId, now, advances, memoryStats>>

\* a find that passes over the records whose weight is 0
FirstHit_forgetting(resp) ==
    LET hits == {i \in 1..Len(RegionOrder) :
                    /\ resp[RegionOrder[i]].st = "hit"
                    /\ resp[RegionOrder[i]].val.weight > 0} IN
    IF hits = {} THEN NoMem
    ELSE resp[RegionOrder[CHOOSE i \in hits : \A j \in hits : i <= j]].val

\* searchResults.find(result => result !== null)
FirstHit(resp) ==
    LET hits == {i \in 1..Len(RegionOrder) : resp[RegionOrder[i]].st = "hit"} IN
    IF hits = {} THEN NoMem
    ELSE resp[RegionOrder[CHOOSE i \in hits : \A j \in hits : i <= j]].val

\* lines 226-232: the access statistics are updated on the record that was
\* read and the write-back is fanned out
Accessed(op, memory, t) ==
    LET updated == Reinforce(memory, t) IN
    [op EXCEPT !.pc = "writing", !.mem = updated, !.writes = FanOut(updated)]

\* lines 213-224, once Promise.all resolved: no hit returns null; a hit sleeps
\* the access delay or, with no delay, goes on to the update in the same turn
Joined(op, t) ==
    LET memory == FirstHit(op.resp)
        accessDelay == _calculateAccessDelay(memory.weight) IN
    IF memory = NoMem
    THEN [op EXCEPT !.pc = "done", !.result = [NoResult EXCEPT !.st = "null"]]
    ELSE IF accessDelay > 0
    THEN [op EXCEPT !.pc = "sleeping", !.found = memory, !.mem = memory,
                    !.delay = accessDelay]
    ELSE Accessed([op EXCEPT !.found = memory], memory, t)

\* the answer of region r to readById
ReadAnswer(r, id, outcome) ==
    IF outcome = "ok"
    THEN IF Lookup(r, id) = {}
         THEN [NoResp EXCEPT !.st = "null"]
         ELSE [NoResp EXCEPT !.st = "hit", !.val = CHOOSE m \in Lookup(r, id) : TRUE]
    ELSE [NoResp EXCEPT !.st = outcome]

\* a region answers _search<Region>(memoryId): it answers, rejects, or never
\* answers.  await Promise.all(searchPromises) throws on the first rejection
\* and resolves once every region answered.
RegionRead(o, r, outcome) ==
    /\ ops[o].kind = "retrieve" /\ ops[o].pc = "reading"
    /\ ops[o].resp[r].st = "pending"
    /\ LET answered == [ops[o] EXCEPT !.resp[r] = ReadAnswer(r, ops[o].id, outcome)] IN
       ops' = [ops EXCEPT ![o] =
                 IF outcome = "failed"
                 THEN [answered EXCEPT !.pc = "failed",
                                       !.result = [NoResult EXCEPT !.st = "error"]]
                 ELSE IF \A q \in Regions : answered.resp[q].st \in {"hit", "null"}
                 THEN Joined(answered, now)
                 ELSE answered]
    /\ UNCHANGED <<lifecycle, outside, isInitialized, region, nextId, now, advances, memoryStats>>

\* the access delay is over
RetrieveWake(o) ==
    /\ ops[o].kind = "retrieve" /\ ops[o].pc = "sleeping"
    /\ ops' = [ops EXCEPT ![o] = Accessed(ops[o], ops[o].mem, now)]
    /\ UNCHANGED <<lifecycle, outside, isInitialized, region, nextId, now, advances, memoryStats>>

\* lines 232-237: a region answers one write of the write-back; once all have
\* answered _updateMemoryAcrossRegions resolves and the record is returned
RetrieveWriteBack(o, w, ok) ==
    /\ ops[o].kind = "retrieve" /\ ops[o].pc = "writing"
    /\ w \in ops[o].writes
    /\ region' = Landed(w, ok)
    /\ LET left == ops[o].writes \ {w} IN
       ops' = [ops EXCEPT
                 ![o].writes = left,
                 ![o].pc = IF left = {} THEN "done" ELSE @,
                 ![o].result = IF left = {}
                               THEN [NoResult EXCEPT !.st = "memory", !.mem = ops[o].mem]
                               ELSE @]
    /\ UNCHANGED <<lifecycle, outside, isInitialized, nextId, now, advances, memoryStats>>

(* performConsolidation *)

\* _getAllMemoriesForConsolidation: the list-all sweep over the regions,
\* one record per id (the copy of the first region, in order, that holds it)
AllMemories ==
    LET ids == {m.id : m \in UNION {region[r] : r \in Regions}}
        first(id) == CHOOSE i \in 1..Len(RegionOrder) :
                        /\ Lookup(RegionOrder[i], id) # {}
                        /\ \A j \in 1..(i - 1) : Lookup(RegionOrder[j], id) = {}
    IN {CHOOSE m \in Lookup(RegionOrder[first(id)], id) : TRUE : id \in ids}

\* a pass that counts every record it processed
Consolidated_all(op) ==
    [op EXCEPT !.pc = "done",
               !.result = [NoResult EXCEPT !.st = "count", !.n = Cardinality(op.snapshot)]]

\* lines 358-366: every write-back settled
Consolidated(op) ==
    [op EXCEPT !.pc = "done",
               !.result = [NoResult EXCEPT !.st = "count", !.n = Cardinality(op.changed)]]

\* lines 312-356: the population is listed, every record of it is processed
\* (the callbacks of allMemories.map run to their first await in the same
\* turn) and the write-backs of the records whose weight changed are fanned
\* out; the list-all may also reject, and the pass throws
ConsolidateStart(o, type, ok) ==
    /\ CanStart(o)
    /\ LET snapshot == AllMemories
           changed == {m2 \in {ConsolidateOne(m, type, now) : m \in snapshot} :
                          \E m \in snapshot : m.id = m2.id /\ m.weight # m2.weight}
           started == [IdleOp EXCEPT !.kind = type, !.pc = "writing",
                                     !.snapshot = snapshot, !.changed = changed,
                                     !.writes = UNION {FanOut(m) : m \in changed}]
       IN
       /\ ops' = [ops EXCEPT ![o] =
                    IF ~ok
                    THEN [IdleOp EXCEPT !.kind = type, !.pc = "failed",
                                        !.result = [NoResult EXCEPT !.st = "error"]]
                    ELSE IF changed = {} THEN Consolidated(started)
                    ELSE started]
       /\ memoryStats' =
            IF ok /\ changed = {}
            THEN [memoryStats EXCEPT !.consolidationsPerformed = @ + 1,
                                     !.lastConsolidation = now]
            ELSE memoryStats
    /\ UNCHANGED <<lifecycle, outside, isInitialized, region, nextId, now, advances>>

\* a pass that lists the population again at every write-back
ConsolidateWriteBack_live(o, w, ok) ==
    /\ ops[o].kind \in {"sws", "rem"} /\ ops[o].pc = "writing"
    /\ w \in ops[o].writes
    /\ region' = Landed(w, ok)
    /\ LET left == ops[o].writes \ {w}
           relisted == {ConsolidateOne(m, ops[o].kind, now) : m \in AllMemories}
           more == {m \in relisted : \A c \in ops[o].snapshot : c.id # m.id} IN
       /\ ops' = [ops EXCEPT ![o] =
                    IF left = {} /\ more = {} THEN Consolidated([@ EXCEPT !.writes = left])
                    ELSE [@ EXCEPT !.writes = left \cup UNION {FanOut(m) : m \in more},
                                   !.snapshot = @ \cup more,
                                   !.changed = @ \cup more]]
       /\ memoryStats' =
            IF left = {} /\ more = {}
            THEN [memoryStats EXCEPT !.consolidationsPerformed = @ + 1,
                                     !.lastConsolidation = now]
            ELSE memoryStats
    /\ UNCHANGED <<lifecycle, outside, isInitialized, nextId, now, advances>>

\* lines 349-371: a region answers one write of a record's write-back.  The
\* write-back of a record (_updateMemoryAcrossRegions) resolves once every
\* region answered and one accepted, and rejects when every region rejected.
\* await Promise.all(consolidationPromises) throws on the first rejected
\* write-back: the catch block rethrows that error as it is, without the
\* `consolidated` count (n stays 0), and the other write-backs stay in flight;
\* once every write-back resolved the pass counts the records and returns.
ConsolidateWriteBack(o, w, ok) ==
    /\ ops[o].kind \in {"sws", "rem"} /\ ops[o].pc \in {"writing", "failed"}
    /\ w \in ops[o].writes
    /\ region' = Landed(w, ok)
    /\ LET left == ops[o].writes \ {w}
           landed == IF ok THEN ops[o].landed \cup {w.rec.id} ELSE ops[o].landed
           rejects == /\ w.rec.id \notin landed
                      /\ \A v \in left : v.rec.id # w.rec.id
           answered == [ops[o] EXCEPT !.writes = left, !.landed = landed]
           returns == ops[o].pc = "writing" /\ ~rejects /\ left = {} IN
       /\ ops' = [ops EXCEPT ![o] =
                    IF ops[o].pc = "failed" THEN answered
                    ELSE IF rejects
                    THEN [answered EXCEPT !.pc = "failed",
                                          !.result = [NoResult EXCEPT !.st = "error"]]
                    ELSE IF left = {} THEN Consolidated(answered)
                    ELSE answered]
       /\ memoryStats' =
            IF returns
            THEN [memoryStats EXCEPT !.consolidationsPerformed = @ + 1,
                                     !.lastConsolidation = now]
            ELSE memoryStats
    /\ UNCHANGED <<lifecycle, outside, isInitialized, nextId, now, advances>>

(* searchMemories *)

\* { maxResults: options.maxResults || 20, minWeight: options.minWeight ||
\*   subconscciousThreshold, sortBy: options.sortBy || 'weight', ...options }:
\* the spread at the end restores every key the caller supplied
SearchOptions(options) ==
    [maxResults |-> IF options.maxResults.has THEN options.maxResults.v
                    ELSE DefaultMaxResults,
     minWeight |-> IF options.minWeight.has THEN options.minWeight.v
                   ELSE subconscciousThreshold,
     sortBy |-> options.sortBy]

\* line 729
_deduplicateMemories(memories) == memories

\* the sort key: the comparator of lines 282-293 orders by it, descending
SortKey(memory, sortBy) ==
    IF sortBy = "recent" THEN memory.lastAccessed
    ELSE IF sortBy = "frequency" THEN memory.accessCount
    ELSE memory.weight

\* Array.prototype.sort is stable: x goes after the entries that do not
\* compare after it
RECURSIVE InsertSorted(_, _, _)
InsertSorted(x, sorted, sortBy) ==
    IF sorted = <<>> THEN <<x>>
    ELSE IF SortKey(Head(sorted), sortBy) >= SortKey(x, sortBy)
    THEN <<Head(sorted)>> \o InsertSorted(x, Tail(sorted), sortBy)
    ELSE <<x>> \o sorted

RECURSIVE SortMemories(_, _)
SortMemories(memories, sortBy) ==
    IF memories = <<>> THEN <<>>
    ELSE InsertSorted(memories[Len(memories)],
                      SortMemories(SubSeq(memories, 1, Len(memories) - 1), sortBy),
                      sortBy)

\* searchResults.flat()
RECURSIVE Flat(_, _)
Flat(resp, i) ==
    IF i > Len(RegionOrder) THEN <<>>
    ELSE resp[RegionOrder[i]].list \o Flat(resp, i + 1)

\* a slice that keeps the whole array
SliceEnd_whole(len, end) == len

\* the end index of Array.prototype.slice(0, end): a negative end counts from
\* the end of the array
SliceEnd(len, end) == IF end < 0 THEN Max(len + end, 0) ELSE Min(end, len)

\* lines 276-294
MergeResults(resp, searchOptions) ==
    LET allResults == Flat(resp, 1)
        uniqueResults == _deduplicateMemories(allResults)
        filtered == SelectSeq(uniqueResults,
                              LAMBDA m : m.weight >= searchOptions.minWeight)
        sorted == SortMemories(filtered, searchOptions.sortBy)
    IN SubSeq(sorted, 1, SliceEnd(Len(sorted), searchOptions.maxResults))

\* lines 250-273: the content searches are issued
SearchStart(o, options) ==
    /\ CanStart(o)
    /\ ops' = [ops EXCEPT ![o] =
                 [IdleOp EXCEPT !.kind = "search", !.pc = "searching",
                                !.options = options,
                                !.opts = SearchOptions(options),
                                !.resp = [r \in Regions |-> [NoResp EXCEPT !.st = "pending"]]]]
    /\ UNCHANGED <<lifecycle, outside, isInitialized, region, nextId, now, advances, memoryStats>>

\* the lists region r may answer searchByContent with: its records, in any order
RegionLists(r) ==
    {l \in UNION {[1..n -> region[r]] : n \in {Cardinality(region[r])}} :
        \A i, j \in 1..Len(l) : i # j => l[i] # l[j]}

\* a search that reinforces, in the region that answers, the records it lists
RegionSearch_reinforcing(o, r, outcome, list) ==
    /\ ops[o].kind = "search" /\ ops[o].pc = "searching"
    /\ ops[o].resp[r].st = "pending"
    /\ LET answered == [ops[o] EXCEPT !.resp[r] =
                          IF outcome = "ok" THEN [NoResp EXCEPT !.st = "list", !.list = list]
                          ELSE [NoResp EXCEPT !.st = outcome]] IN
       ops' = [ops EXCEPT ![o] =
                 IF outcome = "failed"
                 THEN [answered EXCEPT !.pc = "failed",
                                       !.result = [NoResult EXCEPT !.st = "error"]]
                 ELSE IF \A q \in Regions : answered.resp[q].st = "list"
                 THEN [answered EXCEPT
                         !.pc = "done",
                         !.result = [NoResult EXCEPT
                                       !.st = "list",
                                       !.list = MergeResults(answered.resp, answered.opts)]]
                 ELSE answered]
    /\ region' = [region EXCEPT ![r] = {Reinforce(m, now) : m \in @}]
    /\ UNCHANGED <<lifecycle, outside, isInitialized, nextId, now, advances, memoryStats>>

\* a region answers _search<Region>Content(query, searchOptions): a list, a
\* rejection, or never.  await Promise.all(searchPromises) throws on the first
\* rejection; once every region answered, lines 276-299 merge and return.
RegionSearch(o, r, outcome, list) ==
    /\ ops[o].kind = "search" /\ ops[o].pc = "searching"
    /\ ops[o].resp[r].st = "pending"
    /\ LET answered == [ops[o] EXCEPT !.resp[r] =
                          IF outcome = "ok" THEN [NoResp EXCEPT !.st = "list", !.list = list]
                          ELSE [NoResp EXCEPT !.st = outcome]] IN
       ops' = [ops EXCEPT ![o] =
                 IF outcome = "failed"
                 THEN [answered EXCEPT !.pc = "failed",
                                       !.result = [NoResult EXCEPT !.st = "error"]]
                 ELSE IF \A q \in Regions : answered.resp[q].st = "list"
                 THEN [answered EXCEPT
                         !.pc = "done",
                         !.result = [NoResult EXCEPT
                                       !.st = "list",
                                       !.list = MergeResults(answered.resp, answered.opts)]]
                 ELSE answered]
    /\ UNCHANGED <<lifecycle, outside, isInitialized, region, nextId, now, advances, memoryStats>>

(* --------------------------- specification ---------------------------- *)

\* what callers pass to storeMemory
StoreParams ==
    {[initialWeight |-> w, emotionalWeight |-> e, semanticWeight |-> Omitted] :
        w \in {Omitted, Given(0), Given(1), Given(890), Given(1500)},
        e \in {Omitted, Given(0)}}

SearchParams ==
    {[maxResults |-> Omitted, minWeight |-> Omitted, sortBy |-> "weight"]}

ClockSteps == {2, 192}

\* the regions answer every call
Reliable == {"ok"}
\* a region call answers, is rejected, or is never answered
Faulty == {"ok", "failed", "hung"}

\* Calls interleave (up to MaxInFlight at a time) over regions that answer
\* every call.
Next ==
    \/ \E ok \in BOOLEAN : ~isInitialized /\ Initialize(ok)
    \/ \E d \in ClockSteps : AdvanceClock(d)
    \/ \E o \in Ops : \E p \in StoreParams : StoreStart(o, p)
    \/ \E o \in Ops : \E w \in ops[o].writes : StoreWrite(o, w, TRUE)
    \/ \E o \in Ops : \E id \in Ids \cup {UnknownId} : RetrieveStart(o, id)
    \/ \E o \in Ops : \E r \in Regions : \E outcome \in Reliable :
          RegionRead(o, r, outcome)
    \/ \E o \in Ops : RetrieveWake(o)
    \/ \E o \in Ops : \E w \in ops[o].writes : RetrieveWriteBack(o, w, TRUE)
    \/ \E o \in Ops : \E type \in {"sws", "rem"} : ConsolidateStart(o, type, TRUE)
    \/ \E o \in Ops : \E w \in ops[o].writes : ConsolidateWriteBack(o, w, TRUE)
    \/ \E o \in Ops : \E options \in SearchParams : SearchStart(o, options)
    \/ \E o \in Ops : \E r \in Regions : \E outcome \in Reliable :
          \E list \in RegionLists(r) : RegionSearch(o, r, outcome, list)

Spec == Init /\ [][Next]_vars

\* Calls run one at a time over regions whose calls may be rejected or never
\* answered.
FaultNext ==
    \/ \E ok \in BOOLEAN : ~isInitialized /\ Initialize(ok)
    \/ \E d \in ClockSteps : AdvanceClock(d)
    \/ \E o \in Ops : \E p \in StoreParams : InFlight = {} /\ StoreStart(o, p)
    \/ \E o \in Ops : \E w \in ops[o].writes : \E ok \in BOOLEAN : StoreWrite(o, w, ok)
    \/ \E o \in Ops : \E id \in Ids \cup {UnknownId} :
          InFlight = {} /\ RetrieveStart(o, id)
    \/ \E o \in Ops : \E r \in Regions : \E outcome \in Faulty :
          RegionRead(o, r, outcome)
    \/ \E o \in Ops : RetrieveWake(o)
    \/ \E o \in Ops : \E w \in ops[o].writes : \E ok \in BOOLEAN :
          RetrieveWriteBack(o, w, ok)
    \/ \E o \in Ops : \E type \in {"sws", "rem"} : \E ok \in BOOLEAN :
          InFlight = {} /\ ConsolidateStart(o, type, ok)
    \/ \E o \in Ops : \E w \in ops[o].writes : \E ok \in BOOLEAN :
          ConsolidateWriteBack(o, w, ok)
    \/ \E o \in Ops : \E options \in SearchParams :
          InFlight = {} /\ SearchStart(o, options)
    \/ \E o \in Ops : \E r \in Regions : \E outcome \in Faulty :
          \E list \in RegionLists(r) : RegionSearch(o, r, outcome, list)

FaultSpec == Init /\ [][FaultNext]_vars

(* searchMemories over a stored population *)

\* records stored before the behaviour starts (their ids are other than the
\* ids of the records stored during it)
PreloadedIds == {UnknownId + i : i \in 1..MaxRecords}

\* the time at which the behaviours over a stored population start
LoadedAt == 1

\* the records the stored population is drawn from: below the default
\* minWeight, easy-recall and conscious; never accessed, or accessed once
SearchVariants(id) ==
    {[id |-> id, weight |-> w, created |-> 0, lastAccessed |-> a.la,
      accessCount |-> a.ac, emotionalWeight |-> DefaultEmotionalWeight,
      semanticWeight |-> DefaultSemanticWeight] :
        w \in {50, 600, 900},
        a \in {[la |-> 0, ac |-> 1], [la |-> LoadedAt, ac |-> 0]}}

\* the populations: one record for each preloaded id
SearchPopulations ==
    {{f[id] : id \in PreloadedIds} :
        f \in {g \in [PreloadedIds -> UNION {SearchVariants(id) : id \in PreloadedIds}] :
                  \A id \in PreloadedIds : g[id].id = id}}

\* the engine after the population was stored in every region
Loaded(population) ==
    /\ isInitialized = TRUE
    /\ region = [r \in Regions |-> population]
    /\ ops = [o \in Ops |-> IdleOp]
    /\ nextId = 1
    /\ now = LoadedAt
    /\ advances = 0
    /\ memoryStats =
         [totalMemories |-> Cardinality(population),
          consciousMemories |->
              Cardinality({m \in population : m.weight >= consciousThreshold}),
          consolidationsPerformed |-> 0, lastConsolidation |-> -1]
    /\ consolidationTimers = NewTimers
    /\ shuttingDown = 0
    /\ ConfigFresh /\ ToastFresh /\ BrainFresh

SearchInit == \E population \in SearchPopulations : Loaded(population)

\* what callers pass to searchMemories
LoadedSearchParams ==
    {[maxResults |-> n, minWeight |-> w, sortBy |-> k] :
        n \in {Omitted, Given(1), Given(2)},
        w \in {Omitted, Given(600)},
        k \in {"weight", "recent", "frequency", "relevance"}}

\* One search over the population; the regions answer in any order, each with
\* its records in any order.
SearchNext ==
    \/ \E o \in Ops : \E options \in LoadedSearchParams :
          (\A p \in Ops : ops[p].pc = "idle") /\ SearchStart(o, options)
    \/ \E o \in Ops : \E r \in Regions : \E outcome \in Reliable :
          \E list \in RegionLists(r) : RegionSearch(o, r, outcome, list)

SearchSpec == SearchInit /\ [][SearchNext]_vars

(* performConsolidation over a stored record *)

\* the record stored before the behaviour starts, last accessed at LoadedAt:
\* of weight 0, 0.001, 0.5, 0.6, 0.95 or 1.0, with the default emotional and
\* semantic weights or with both at 1.0
PassVariants ==
    {[id |-> UnknownId + 1, weight |-> w, created |-> 0, lastAccessed |-> LoadedAt,
      accessCount |-> 0, emotionalWeight |-> e, semanticWeight |-> e] :
        w \in {0, 1, 500, 600, 950, 1000},
        e \in {DefaultEmotionalWeight, 1000}}

PassInit == \E m \in PassVariants : Loaded({m})

\* 2 hours, 2 days and 8 days
PassClockSteps == {2, 48, 192}

\* storeMemory({content})
PassStoreParams ==
    {[initialWeight |-> Omitted, emotionalWeight |-> Omitted, semanticWeight |-> Omitted]}

\* Consolidation passes and stores interleave (up to MaxInFlight at a time)
\* over regions that answer every call.
PassNext ==
    \/ \E d \in PassClockSteps : AdvanceClock(d)
    \/ \E o \in Ops : \E p \in PassStoreParams : StoreStart(o, p)
    \/ \E o \in Ops : \E w \in ops[o].writes : StoreWrite(o, w, TRUE)
    \/ \E o \in Ops : \E type \in {"sws", "rem"} : ConsolidateStart(o, type, TRUE)
    \/ \E o \in Ops : \E w \in ops[o].writes : ConsolidateWriteBack(o, w, TRUE)

PassSpec == PassInit /\ [][PassNext]_vars

(* performConsolidation over regions that may reject a write *)

\* the populations of two records that a slow pass at LoadedAt raises (or
\* leaves at 1.0)
PassFaultPopulations ==
    {{[id |-> id, weight |-> f[id], created |-> 0, lastAccessed |-> LoadedAt,
       accessCount |-> 0, emotionalWeight |-> DefaultEmotionalWeight,
       semanticWeight |-> DefaultSemanticWeight] : id \in PreloadedIds} :
        f \in [PreloadedIds -> {500, 600, 1000}]}

PassFaultInit == \E population \in PassFaultPopulations : Loaded(population)

\* One pass over the population; the list-all and every region write may be
\* rejected.
PassFaultNext ==
    \/ \E o \in Ops : \E type \in {"sws", "rem"} : \E ok \in BOOLEAN :
          (\A p \in Ops : ops[p].pc = "idle") /\ ConsolidateStart(o, type, ok)
    \/ \E o \in Ops : \E w \in ops[o].writes : \E ok \in BOOLEAN :
          ConsolidateWriteBack(o, w, ok)

PassFaultSpec == PassFaultInit /\ [][PassFaultNext]_vars

\* One stored record, its weight on either side of every recall threshold,
\* is retrieved by calls that overlap.
RetrieveVariants ==
    {[id |-> UnknownId + 1, weight |-> w, created |-> 0, lastAccessed |-> LoadedAt,
      accessCount |-> 0, emotionalWeight |-> DefaultEmotionalWeight,
      semanticWeight |-> DefaultSemanticWeight] :
        w \in {0, 99, 100, 299, 300, 599, 600, 799, 800, 1000}}

RetrieveInit == \E m \in RetrieveVariants : Loaded({m})

RetrieveNext ==
    \/ \E o \in Ops : \E id \in KnownIds \cup {UnknownId} : RetrieveStart(o, id)
    \/ \E o \in Ops : \E r \in Regions : \E outcome \in Reliable :
          RegionRead(o, r, outcome)
    \/ \E o \in Ops : RetrieveWake(o)
    \/ \E o \in Ops : \E w \in ops[o].writes : RetrieveWriteBack(o, w, TRUE)

RetrieveSpec == RetrieveInit /\ [][RetrieveNext]_vars

\* a consolidation timer fires (lines 651-666): performConsolidation of its
\* type starts; while the engine is not initialized the call throws, the
\* callback logs the error and nothing changes
TimerFires(o, i, ok) ==
    /\ i \in 1..Len(consolidationTimers)
    /\ ConsolidateStart(o, consolidationTimers[i], ok)

\* the life cycle of one engine: initialize() and shutdown() called in any
\* order and any number of times, and the timers firing between them
LifeNext ==
    \/ \E ok \in BOOLEAN : Initialize(ok)
    \/ ShutdownStart
    \/ \E ok \in BOOLEAN : ShutdownDone(ok)
    \/ \E o \in Ops : \E i \in 1..Len(consolidationTimers) : \E ok \in BOOLEAN :
          TimerFires(o, i, ok)

LifeSpec == Init /\ [][LifeNext]_vars

(* -------------------------- SafeConfigManager ------------------------- *)

\* a slot that a new call can take: the lowest one with no call in progress
Free(c) ==
    /\ calls[c].pc \in {"idle", "done"}
    /\ \A d \in Slots : d < c => calls[d].pc \notin {"idle", "done"}

\* the calls inside atomicWrite
Writing == {c \in Slots : calls[c].pc \in {"open", "fill", "verify", "rename", "cleanup"}}

\* atomicWrite(config), line 273: the temporary path is named after Date.now()
\* and writeFile opens it
AtomicWrite(call, config, phase) ==
    [call EXCEPT !.pc = "open", !.phase = phase, !.config = config,
                 !.tempPath = clock]

\* a call returns
Returns(call, result) ==
    [IdleCall EXCEPT !.kind = call.kind, !.pc = "done", !.config = call.config,
                     !.updates = call.updates, !.result = result]

\* writeConfig past acquireLock, lines 110-117: createBackup if it is enabled,
\* then atomicWrite
Locked(call) ==
    IF call.createBackup
    THEN [call EXCEPT !.pc = "rotate", !.phase = "write", !.i = backupCount]
    ELSE AtomicWrite(call, call.config, "write")

\* writeConfig(config, options), lines 97-108, up to the first await: the call
\* takes the lock if no call holds it and waits lockRetryDelay otherwise
\* (acquireLock, lines 312-319); the call and the lock map that result
writeConfig(call) ==
    IF configPath \in locks
    THEN [call |-> [call EXCEPT !.pc = "waiting", !.phase = "write"], locks |-> locks]
    ELSE [call |-> Locked(call), locks |-> locks \cup {configPath}]

\* releaseLock, lines 330-332
releaseLock == locks \ {configPath}

\* readConfig returns the config it read or recovered: to its caller, or to
\* updateConfig, which merges the updates (line 348) and calls writeConfig
readConfigReturns(call, config) ==
    IF call.kind = "update"
    THEN writeConfig([call EXCEPT !.config = IF config = Scalar THEN call.updates
                                             ELSE config \cup call.updates])
    ELSE [call |-> Returns([call EXCEPT !.config = config], "config"), locks |-> locks]

\* a recovery that gives up on the backups after the first one
NextBackup_default(call) ==
    AtomicWrite([call EXCEPT !.i = backupCount + 1], call.defaultConfig, "recover")

\* recoverConfig, lines 197-217, after backup i could not be used: the next
\* backup is read, or after the last one the default config is written
NextBackup(call) ==
    IF call.i < backupCount
    THEN [call EXCEPT !.pc = "recover", !.phase = "recover", !.i = @ + 1]
    ELSE AtomicWrite([call EXCEPT !.i = backupCount + 1], call.defaultConfig,
                     "recover")

\* an entry of the log of the writes that ended (the writeConfig calls that
\* took the lock, and the recoveries that replaced the main file): the content
\* the main file had before the write, and whether it was a writeConfig with
\* a backup that succeeded
Logged(before, call, ok) ==
    [before |-> [before EXCEPT !.fd = {}],
     rotated |-> ok /\ call.phase = "write" /\ call.createBackup]

StartWrite(c, config, createBackup) ==
    /\ Free(c)
    /\ LET w == writeConfig([IdleCall EXCEPT !.kind = "write", !.config = config,
                                              !.createBackup = createBackup]) IN
       /\ calls' = [calls EXCEPT ![c] = w.call]
       /\ locks' = w.locks
    /\ callsStarted' = callsStarted + 1
    /\ UNCHANGED <<engineVars, toastVars, brainVars, mainFile, backups, temps, clock, writeLog>>

\* acquireLock, lines 312-319: the retry delay is over and the lock is free
LockRetry(c) ==
    /\ calls[c].pc = "waiting" /\ configPath \notin locks
    /\ calls' = [calls EXCEPT ![c] = Locked(@)]
    /\ locks' = locks \cup {configPath}
    /\ UNCHANGED <<engineVars, toastVars, brainVars, mainFile, backups, temps, clock, callsStarted, writeLog>>

\* a timeout that also deletes the lock
LockTimeout_releasing(c) ==
    /\ calls[c].pc = "waiting" /\ configPath \in locks
    /\ calls' = [calls EXCEPT ![c] = Returns(@, "false")]
    /\ locks' = releaseLock
    /\ UNCHANGED <<engineVars, toastVars, brainVars, mainFile, backups, temps, clock,
                   callsStarted, writeLog>>

\* acquireLock, lines 313-315: the lock is still held after lockTimeout and
\* writeConfig returns false (lines 130-132)
LockTimeout(c) ==
    /\ calls[c].pc = "waiting" /\ configPath \in locks
    /\ calls' = [calls EXCEPT ![c] = Returns(@, "false")]
    /\ UNCHANGED <<engineVars, toastVars, brainVars, mainFile, backups, temps, locks, clock, callsStarted,
                   writeLog>>

\* a rotation that moves every backup up, the last one included
Rotated_all(i) ==
    IF backups[i].st = "absent" THEN backups
    ELSE [backups EXCEPT ![i + 1] = backups[i], ![i] = Absent]

\* createBackup, lines 232-246, for backup i: the oldest backup is deleted,
\* any other is renamed to the next index
Rotated(i) ==
    IF backups[i].st = "absent" THEN backups
    ELSE IF i = backupCount THEN [backups EXCEPT ![i] = Absent]
    ELSE [backups EXCEPT ![i + 1] = backups[i], ![i] = Absent]

RotateBackup(c) ==
    /\ calls[c].pc = "rotate"
    /\ backups' = Rotated(calls[c].i)
    /\ calls' = [calls EXCEPT ![c].i = @ - 1,
                              ![c].pc = IF calls[c].i = 1 THEN "copy" ELSE "rotate"]
    /\ UNCHANGED <<engineVars, toastVars, brainVars, mainFile, temps, locks, clock, callsStarted, writeLog>>

\* createBackup, lines 249-260: the main file is copied to backup 1 (no main
\* file: nothing is copied), then atomicWrite starts (line 117)
CopyBackup(c) ==
    /\ calls[c].pc = "copy"
    /\ backups' = IF mainFile.st = "absent" THEN backups
                  ELSE [backups EXCEPT ![1] = [mainFile EXCEPT !.fd = {}]]
    /\ calls' = [calls EXCEPT ![c] = AtomicWrite(@, @.config, "write")]
    /\ UNCHANGED <<engineVars, toastVars, brainVars, mainFile, temps, locks, clock, callsStarted, writeLog>>

\* fs.writeFile(tempPath, ...), line 280: the file is created, or truncated if
\* it exists, and opened for writing
OpenTemp(c) ==
    /\ calls[c].pc = "open"
    /\ temps' = [temps EXCEPT ![calls[c].tempPath] =
                    [st |-> "partial", keys |-> {}, fd |-> @.fd \cup {c}]]
    /\ calls' = [calls EXCEPT ![c].pc = "fill"]
    /\ UNCHANGED <<engineVars, toastVars, brainVars, mainFile, backups, locks, clock, callsStarted, writeLog>>

\* what a file holds after call c wrote the JSON of its config into it through
\* its descriptor: the document ("written"), a part of it when the write
\* failed ("failed"), or a mix when another call wrote a different document
\* into the same file ("mixed")
Filled(file, c, outcome) ==
    IF outcome = "written" THEN [st |-> "json", keys |-> calls[c].config, fd |-> file.fd \ {c}]
    ELSE [st |-> "partial", keys |-> {}, fd |-> file.fd \ {c}]

\* fs.writeFile(tempPath, ...), line 280: the data is written and the file is
\* closed.  The descriptor follows the file: a file that was renamed to the
\* main path meanwhile is written there, a deleted file nowhere.
FillTemp(c, outcome) ==
    /\ calls[c].pc = "fill"
    /\ LET t == calls[c].tempPath
           shared == \/ c \in temps[t].fd /\ temps[t].st = "json"
                                          /\ temps[t].keys # calls[c].config
                     \/ c \in mainFile.fd /\ mainFile.st = "json"
                                          /\ mainFile.keys # calls[c].config IN
       /\ outcome = "mixed" => shared
       /\ temps' = IF c \in temps[t].fd
                   THEN [temps EXCEPT ![t] = Filled(@, c, outcome)]
                   ELSE temps
       /\ mainFile' = IF c \in mainFile.fd THEN Filled(mainFile, c, outcome)
                      ELSE mainFile
    /\ calls' = [calls EXCEPT ![c].pc = IF outcome = "failed" THEN "cleanup"
                                        ELSE "verify"]
    /\ UNCHANGED <<engineVars, toastVars, brainVars, backups, locks, clock, callsStarted, writeLog>>

\* lines 283-284: the temporary file is read back and parsed
VerifyTemp(c) ==
    /\ calls[c].pc = "verify"
    /\ calls' = [calls EXCEPT ![c].pc =
                    IF temps[calls[c].tempPath].st = "json" THEN "rename"
                    ELSE "cleanup"]
    /\ UNCHANGED <<engineVars, toastVars, brainVars, mainFile, backups, temps, locks, clock, callsStarted,
                   writeLog>>

\* line 287: the temporary file is renamed to the config path, or the rename
\* fails (no such file, or the file system refuses).  After the rename
\* writeConfig releases the lock and returns true (lines 123-127), and
\* recoverConfig returns the config it wrote (lines 206, 222).
RenameTemp(c, ok) ==
    /\ calls[c].pc = "rename"
    /\ LET t == calls[c].tempPath
           renamed == ok /\ temps[t].st # "absent"
           next == IF calls[c].phase = "write"
                   THEN [call |-> Returns(calls[c], "true"), locks |-> releaseLock]
                   ELSE readConfigReturns(calls[c], calls[c].config) IN
       /\ mainFile' = IF renamed THEN temps[t] ELSE mainFile
       /\ temps' = IF renamed THEN [temps EXCEPT ![t] = Absent] ELSE temps
       /\ calls' = [calls EXCEPT ![c] = IF renamed THEN next.call
                                        ELSE [@ EXCEPT !.pc = "cleanup"]]
       /\ locks' = IF renamed THEN next.locks ELSE locks
       /\ writeLog' = IF renamed
                      THEN <<Logged(mainFile, calls[c], TRUE)>> \o writeLog
                      ELSE writeLog
    /\ UNCHANGED <<engineVars, toastVars, brainVars, backups, clock, callsStarted>>

\* lines 293-300: the temporary file is deleted (an error of the delete is
\* ignored) and the error is thrown: writeConfig releases the lock and returns
\* false (lines 125-132), recoverConfig goes on with the next backup (lines
\* 208-212), and a failed write of the default config makes readConfig throw
\* (updateConfig then returns false, lines 350-352)
CleanupTemp(c) ==
    /\ calls[c].pc = "cleanup"
    /\ temps' = [temps EXCEPT ![calls[c].tempPath] = Absent]
    /\ calls' = [calls EXCEPT ![c] =
                    IF @.phase = "write" THEN Returns(@, "false")
                    ELSE IF @.i <= backupCount THEN NextBackup(@)
                    ELSE Returns(@, IF @.kind = "update" THEN "false" ELSE "error")]
    /\ locks' = IF calls[c].phase = "write" THEN releaseLock ELSE locks
    /\ writeLog' = IF calls[c].phase = "write"
                   THEN <<Logged(mainFile, calls[c], FALSE)>> \o writeLog
                   ELSE writeLog
    /\ UNCHANGED <<engineVars, toastVars, brainVars, mainFile, backups, clock, callsStarted>>

\* readConfig(options), lines 62-68: the main file is asked for
StartRead(c, enableRecovery, default) ==
    /\ Free(c)
    /\ calls' = [calls EXCEPT ![c] =
                    [IdleCall EXCEPT !.kind = "read", !.pc = "read",
                                     !.enableRecovery = enableRecovery,
                                     !.defaultConfig = default]]
    /\ callsStarted' = callsStarted + 1
    /\ UNCHANGED <<engineVars, toastVars, brainVars, mainFile, backups, temps, locks, clock, writeLog>>

\* updateConfig(updates, options), lines 345-347: readConfig is called
StartUpdate(c, updates, createBackup) ==
    /\ Free(c)
    /\ calls' = [calls EXCEPT ![c] =
                    [IdleCall EXCEPT !.kind = "update", !.pc = "read",
                                     !.updates = updates,
                                     !.createBackup = createBackup]]
    /\ callsStarted' = callsStarted + 1
    /\ UNCHANGED <<engineVars, toastVars, brainVars, mainFile, backups, temps, locks, clock, writeLog>>

\* readConfigFile(configPath) answers, lines 68-88 and 140-161: a file that
\* holds a config is returned; a missing, empty or unparsable file, or a value
\* that validateConfig rejects, starts recoverConfig, which asks for backup 1,
\* or with recovery disabled makes readConfig throw
ReadMain(c) ==
    /\ calls[c].pc = "read"
    /\ LET next == IF /\ mainFile.st = "json"
                      /\ validateOnRead => validateConfig(mainFile.keys)
                   THEN readConfigReturns(calls[c], mainFile.keys)
                   ELSE IF calls[c].enableRecovery
                   THEN [call |-> [calls[c] EXCEPT !.pc = "recover",
                                                   !.phase = "recover", !.i = 1],
                         locks |-> locks]
                   ELSE [call |-> Returns(calls[c], IF calls[c].kind = "update"
                                                    THEN "false" ELSE "error"),
                         locks |-> locks] IN
       /\ calls' = [calls EXCEPT ![c] = next.call]
       /\ locks' = next.locks
    /\ UNCHANGED <<engineVars, toastVars, brainVars, mainFile, backups, temps, clock, callsStarted, writeLog>>

\* recoverConfig, lines 197-212: readConfigFile(backup i) answers; a backup
\* that holds a config is written back to the main file with atomicWrite
ReadBackup(c) ==
    /\ calls[c].pc = "recover"
    /\ calls' = [calls EXCEPT ![c] =
                    IF backups[@.i].st = "json"
                    THEN AtomicWrite(@, backups[@.i].keys, "recover")
                    ELSE NextBackup(@)]
    /\ UNCHANGED <<engineVars, toastVars, brainVars, mainFile, backups, temps, locks, clock, callsStarted,
                   writeLog>>

\* a millisecond passes
Tick ==
    /\ clock < MaxTicks
    /\ clock' = clock + 1
    /\ UNCHANGED <<engineVars, toastVars, brainVars, mainFile, backups, temps, locks, calls, callsStarted,
                   writeLog>>

\* the outcomes of writing the temporary file
FillOutcomes == {"written", "failed", "mixed"}

\* the steps of the calls in progress
ConfigSteps ==
    \/ \E c \in Slots : LockRetry(c)
    \/ \E c \in Slots : LockTimeout(c)
    \/ \E c \in Slots : RotateBackup(c)
    \/ \E c \in Slots : CopyBackup(c)
    \/ \E c \in Slots : OpenTemp(c)
    \/ \E c \in Slots : \E outcome \in FillOutcomes : FillTemp(c, outcome)
    \/ \E c \in Slots : VerifyTemp(c)
    \/ \E c \in Slots : \E ok \in BOOLEAN : RenameTemp(c, ok)
    \/ \E c \in Slots : CleanupTemp(c)
    \/ Tick

\* the disks a manager is constructed on: no main file, a main file that was
\* cut off, or one that holds a config; no backup, or the backups of earlier
\* runs
Disks ==
    {[main |-> m, backup |-> b] :
        m \in {Absent, Partial, Json({})},
        b \in {NoBackups,
               [NoBackups EXCEPT ![1] = Partial, ![2] = Json({"b"})]}}

ConfigInit ==
    /\ EngineFresh /\ ToastFresh /\ BrainFresh
    /\ \E d \in Disks : ConfigOn(d.main, d.backup)

\* the configs a caller writes, and the updates it merges
WriteInputs == {{"a"}, {"b"}}

\* readConfig, writeConfig and updateConfig calls that overlap
ConfigNext ==
    \/ \E c \in Slots : \E config \in WriteInputs : \E createBackup \in BOOLEAN :
          callsStarted < MaxCalls /\ StartWrite(c, config, createBackup)
    \/ \E c \in Slots : callsStarted < MaxCalls /\ StartRead(c, TRUE, defaultConfig)
    \/ \E c \in Slots : \E updates \in WriteInputs :
          callsStarted < MaxCalls /\ StartUpdate(c, updates, TRUE)
    \/ \E c \in Slots : ReadMain(c)
    \/ \E c \in Slots : ReadBackup(c)
    \/ ConfigSteps

ConfigSpec == ConfigInit /\ [][ConfigNext]_vars

\* writeConfig calls, one after another or overlapping
BackupNext ==
    \/ \E c \in Slots : \E config \in WriteInputs : \E createBackup \in BOOLEAN :
          callsStarted < MaxWrites /\ StartWrite(c, config, createBackup)
    \/ ConfigSteps

BackupSpec == ConfigInit /\ [][BackupNext]_vars

\* the disks of a recovery: the main file is missing, cut off, holds a value
\* that is not an object, or holds a config; every backup is missing, cut
\* off, or holds a config of its own, and backup 1 may hold a value that is
\* not an object
BackupContent == <<{"a"}, {"b"}, {"a", "b"}>>

RecoveryDisks ==
    {[main |-> m,
      backup |-> [k \in BackupIndexes |-> IF k <= backupCount THEN b[k] ELSE Absent]] :
        m \in {Absent, Partial, Json(Scalar), Json({})},
        b \in {f \in [1..backupCount -> {Absent, Partial, Json(Scalar)} \cup
                                        {Json(BackupContent[k]) : k \in 1..backupCount}] :
                  \A k \in 1..backupCount :
                     /\ f[k].st = "json" /\ f[k].keys # Scalar
                           => f[k].keys = BackupContent[k]
                     /\ f[k].keys = Scalar => k = 1}}

RecoveryInit ==
    /\ EngineFresh /\ ToastFresh /\ BrainFresh
    /\ \E d \in RecoveryDisks : ConfigOn(d.main, d.backup)

\* the default configs a caller supplies
DefaultInputs == {defaultConfig, {"b"}, Scalar}

\* readConfig calls, one after another, on a file system whose writes succeed
RecoveryNext ==
    \/ \E c \in Slots : \E enableRecovery \in BOOLEAN : \E default \in DefaultInputs :
          /\ callsStarted < MaxCalls
          /\ \A d \in Slots : calls[d].pc \in {"idle", "done"}
          /\ StartRead(c, enableRecovery, default)
    \/ \E c \in Slots : ReadMain(c)
    \/ \E c \in Slots : ReadBackup(c)
    \/ \E c \in Slots : OpenTemp(c)
    \/ \E c \in Slots : FillTemp(c, "written")
    \/ \E c \in Slots : VerifyTemp(c)
    \/ \E c \in Slots : RenameTemp(c, TRUE)

RecoverySpec == RecoveryInit /\ [][RecoveryNext]_vars

\* the public operations of the engine
PublicOps == {"store", "retrieve", "search", "consolidate", "statistics"}

\* lines 152-154, 197-199, 250-252, 312-314, 379-381: a public operation called
\* while isInitialized is false throws 'BiomimeticMemoryManager not
\* initialized' before anything else
Rejected(o, kind) ==
    /\ ~isInitialized
    /\ ops[o].pc = "idle"
    /\ \A p \in Ops : p < o => ops[p].pc # "idle"
    /\ ops' = [ops EXCEPT ![o] = [IdleOp EXCEPT !.kind = kind, !.pc = "failed",
                                   !.result = [NoResult EXCEPT !.st = "notInitialized"]]]
    /\ UNCHANGED <<lifecycle, outside, isInitialized, region, nextId, now, advances,
                   memoryStats>>

\* the operations called at any point of the life cycle: initialize() and
\* shutdown() in any order, with connections and closes that succeed or are
\* rejected, and between them calls that are rejected or run (the stored
\* records have the default weight, which is recalled without a delay)
GuardNext ==
    \/ \E ok \in BOOLEAN : Initialize(ok)
    \/ ShutdownStart
    \/ \E ok \in BOOLEAN : ShutdownDone(ok)
    \/ \E o \in Ops : \E kind \in PublicOps : Rejected(o, kind)
    \/ \E o \in Ops : StoreStart(o, [initialWeight |-> Omitted, emotionalWeight |-> Omitted,
                                     semanticWeight |-> Omitted])
    \/ \E o \in Ops : \E w \in ops[o].writes : StoreWrite(o, w, TRUE)
    \/ \E o \in Ops : \E id \in Ids : RetrieveStart(o, id)
    \/ \E o \in Ops : \E r \in Regions : RegionRead(o, r, "ok")
    \/ \E o \in Ops : \E w \in ops[o].writes : RetrieveWriteBack(o, w, TRUE)

GuardSpec == Init /\ [][GuardNext]_vars

\* setEx(memoryId, 31536000, ...): the time to live of a hippocampus key, in
\* seconds
EpisodicTTL == 31536000

Importances == {0, 500, 1000}

\* storeEpisodicMemory, lines 81-98 (emotional has its default, 0.5): the
\* memory is written to the hippocampus store under a fresh id with a time to
\* live, and its weight is kept in memoryWeights
storeEpisodicMemory(importance) ==
    /\ Len(memoryWeights) < MaxEpisodes
    /\ LET memoryId == Len(memoryWeights) + 1
           weight == calculateMemoryWeight(importance, DefaultEmotionalWeight) IN
       /\ hippocampusKeys' = hippocampusKeys \cup
                               {[id |-> memoryId, weight |-> weight, ttl |-> EpisodicTTL]}
       /\ memoryWeights' = Append(memoryWeights, [id |-> memoryId, weight |-> weight])
    /\ UNCHANGED <<engineVars, configVars, toastVars>>

\* time passes in the hippocampus store: the store drops every key whose time
\* to live has run out
HippocampusAges(seconds) ==
    /\ hippocampusKeys # {}
    /\ hippocampusKeys' = {[k EXCEPT !.ttl = @ - seconds] :
                              k \in {h \in hippocampusKeys : h.ttl > seconds}}
    /\ UNCHANGED <<engineVars, configVars, toastVars, memoryWeights>>

\* half a year
AgeSteps == {EpisodicTTL \div 2}

BrainNext ==
    \/ \E importance \in Importances : storeEpisodicMemory(importance)
    \/ \E seconds \in AgeSteps : HippocampusAges(seconds)

BrainSpec == Init /\ [][BrainNext]_vars

(* --------------------------- the toast manager ------------------------ *)

\* processToast, lines 77-87: an attempt starts and waits for the race of the
\* toast call and the timeout
Attempt(config) == [config EXCEPT !.pc = "racing", !.attempts = @ + 1]

\* the finally block of processToast, lines 113-116, run on the toast records
\* ts: isProcessing is reset and processQueue (lines 205-210) takes the first
\* queued toast, if there is one, and starts processToast for it, which sets
\* isProcessing again
Finally(ts) ==
    IF queue # <<>>
    THEN [toasts |-> [ts EXCEPT ![Head(queue)] = Attempt(@)],
          queue |-> Tail(queue), isProcessing |-> TRUE]
    ELSE [toasts |-> ts, queue |-> queue, isProcessing |-> FALSE]

\* the toast manager after the finally block
Finished(ts) ==
    /\ toasts' = Finally(ts).toasts
    /\ queue' = Finally(ts).queue
    /\ isProcessing' = Finally(ts).isProcessing

\* showToast, lines 53-70: the toast is queued while isProcessing is set, and
\* processed at once otherwise
ShowToast(t, timeout) ==
    /\ toasts[t].pc = "new"
    /\ \A u \in Toasts : u < t => toasts[u].pc # "new"
    /\ LET toastConfig == [NoToast EXCEPT !.timeout = OrDefault(timeout, defaultTimeout),
                                          !.retries = 0, !.maxRetries = maxRetries] IN
       IF isProcessing
       THEN /\ queue' = Append(queue, t)
            /\ toasts' = [toasts EXCEPT ![t] = [toastConfig EXCEPT !.pc = "queued"]]
            /\ UNCHANGED isProcessing
       ELSE /\ toasts' = [toasts EXCEPT ![t] = Attempt(toastConfig)]
            /\ isProcessing' = TRUE
            /\ UNCHANGED queue
    /\ UNCHANGED <<engineVars, configVars, brainVars>>

\* lines 84-96: the toast call won the race; processToast returns true
ToastCompletes(t) ==
    /\ toasts[t].pc = "racing"
    /\ Finished([toasts EXCEPT ![t].pc = "done", ![t].last = "completed",
                               ![t].result = "true"])
    /\ UNCHANGED <<engineVars, configVars, brainVars>>

\* a timeout after which the queue is left alone
ToastTimesOut_blocking(t) ==
    /\ toasts[t].pc = "racing"
    /\ toasts' = [toasts EXCEPT ![t].pc = "done", ![t].last = "timeout",
                                ![t].fallbacks = @ + 1, ![t].result = "false"]
    /\ isProcessing' = FALSE
    /\ UNCHANGED <<engineVars, configVars, brainVars, queue>>

\* lines 89-94 and 147-151: the timeout won the race; the fallback notification
\* is shown and processToast returns false
ToastTimesOut(t) ==
    /\ toasts[t].pc = "racing"
    /\ Finished([toasts EXCEPT ![t].pc = "done", ![t].last = "timeout",
                               ![t].fallbacks = @ + 1, ![t].result = "false"])
    /\ UNCHANGED <<engineVars, configVars, brainVars>>

\* an error handler that allows one retry more
ToastFails_again(t) ==
    /\ toasts[t].pc = "racing"
    /\ IF toasts[t].retries <= toasts[t].maxRetries
       THEN /\ toasts' = [toasts EXCEPT ![t].pc = "waiting", ![t].last = "error",
                                        ![t].retries = @ + 1,
                                        ![t].waits = Append(@, retryDelay)]
            /\ UNCHANGED <<queue, isProcessing>>
       ELSE Finished([toasts EXCEPT ![t].pc = "done", ![t].last = "error",
                                    ![t].fallbacks = @ + 1, ![t].result = "false"])
    /\ UNCHANGED <<engineVars, configVars, brainVars>>

\* lines 98-111: the toast call threw. While retries are left the retry counter
\* is incremented and processToast waits retryDelay (isProcessing stays set);
\* otherwise the fallback notification is shown and processToast returns false
ToastFails(t) ==
    /\ toasts[t].pc = "racing"
    /\ IF toasts[t].retries < toasts[t].maxRetries
       THEN /\ toasts' = [toasts EXCEPT ![t].pc = "waiting", ![t].last = "error",
                                        ![t].retries = @ + 1,
                                        ![t].waits = Append(@, retryDelay)]
            /\ UNCHANGED <<queue, isProcessing>>
       ELSE Finished([toasts EXCEPT ![t].pc = "done", ![t].last = "error",
                                    ![t].fallbacks = @ + 1, ![t].result = "false"])
    /\ UNCHANGED <<engineVars, configVars, brainVars>>

\* lines 105-106 and 113-116: the retry delay is over. return
\* this.processToast(config) starts the next attempt, and the finally block of
\* the attempt that failed then runs at once, while the new attempt is racing
RetryWake(t) ==
    /\ toasts[t].pc = "waiting"
    /\ Finished([toasts EXCEPT ![t] = Attempt(@)])
    /\ UNCHANGED <<engineVars, configVars, brainVars>>

\* options.timeout of showToast
ToastTimeouts == {Omitted, Given(2000)}

ToastNext ==
    \/ \E t \in Toasts : \E timeout \in ToastTimeouts : ShowToast(t, timeout)
    \/ \E t \in Toasts : ToastCompletes(t)
    \/ \E t \in Toasts : ToastTimesOut(t)
    \/ \E t \in Toasts : ToastFails(t)
    \/ \E t \in Toasts : RetryWake(t)

ToastSpec == Init /\ [][ToastNext]_vars

\* the timers of createTimeoutPromise and delay fire; the toast call itself
\* may never complete or fail
ToastLiveSpec ==
    /\ Init /\ [][ToastNext]_vars
    /\ \A t \in Toasts : WF_vars(ToastTimesOut(t)) /\ WF_vars(RetryWake(t))

(* ------------------------------ claims -------------------------------- *)

\* the copies of record id that the regions hold
Copies(id) == UNION {Lookup(r, id) : r \in Regions}

\* the consolidation passes and the retrieves of record id among the calls
Passes == {o \in Ops : ops[o].kind \in {"sws", "rem"}}
RetrievesOf(id) == {o \in Ops : ops[o].kind = "retrieve" /\ ops[o].id = id}

\* the step lands no write of a store
NoStoreWriteLands ==
    \A o \in Ops : ops[o].kind = "store" => ops'[o].writes = ops[o].writes

\* the record a mutating call computed its new weight from
Base(o, id) ==
    IF ops[o].kind = "retrieve" THEN ops[o].found
    ELSE CHOOSE m \in ops[o].snapshot : m.id = id

\* C1: every record a region holds has a weight between 0.0 and 1.0, in every
\* reachable state, whatever parameters the callers of store supplied.
C1_WeightInRange ==
    \A r \in Regions : \A m \in region[r] : 0 <= m.weight /\ m.weight <= MaxWeight

\* C2: weight mutations of one record are serialized: whenever the write-back
\* of a retrieve's reinforcement or of a consolidation pass lands on a region's
\* copy, the new weight was computed from the weight that copy holds at that
\* time, so no earlier mutation is overwritten.  Stated for one retrieve
\* running against one consolidation pass.
C2_MutationsSerialized ==
    [][\A o \in Ops : \A w \in ops[o].writes :
          (/\ Cardinality(Passes) <= 1
           /\ Cardinality({p \in Ops : ops[p].kind = "retrieve"}) <= 1
           /\ ops[o].kind \in {"retrieve", "sws", "rem"}
           /\ w \notin ops'[o].writes)
          => \A m \in Lookup(w.region, w.rec.id) :
                m.weight = Base(o, w.rec.id).weight]_vars

\* C3: once k retrieves of an id have succeeded (and no call is in flight),
\* the stored accessCount is exactly k.  Stated for the histories without a
\* consolidation pass in which every retrieve found the record in every region.
C3_AccessCountExact ==
    \A id \in Ids :
        (/\ InFlight = {}
         /\ Passes = {}
         /\ \A o \in RetrievesOf(id) : \A r \in Regions : ops[o].resp[r].st = "hit")
        => \A m \in Copies(id) :
              m.accessCount =
                Cardinality({o \in RetrievesOf(id) : ops[o].result.st = "memory"})

\* C4: no write-back of a retrieve or of a consolidation pass lowers the
\* accessCount a region holds for a record.
C4_AccessCountMonotonic ==
    [][NoStoreWriteLands
       => \A r \in Regions : \A m \in region[r] : \A m2 \in region'[r] :
             m.id = m2.id => m2.accessCount >= m.accessCount]_vars

\* C5: search tolerates the failure of a region: it throws only if no region
\* answered its content search; when a region answered and another failed,
\* search still returns.
C5_SearchToleratesFailure ==
    \A o \in Ops :
        (ops[o].kind = "search" /\ ops[o].pc = "failed")
        => \A r \in Regions : ops[o].resp[r].st # "list"

\* C6: the list a search returns holds at most one entry per record id.
C6_SearchDeduplicates ==
    \A o \in Ops :
        (ops[o].kind = "search" /\ ops[o].pc = "done")
        => \A i, j \in 1..Len(ops[o].result.list) :
              i # j => ops[o].result.list[i].id # ops[o].result.list[j].id

\* C7: a store fails only if every targeted region rejected its write: it
\* never fails when some region accepted the record.
C7_StoreToleratesFailure ==
    \A o \in Ops :
        (ops[o].kind = "store" /\ ops[o].pc = "failed") => Copies(ops[o].id) = {}

\* C8: a retrieve fails only if every region failed: it never fails when some
\* region answered (with the record, or absent).
C8_RetrieveToleratesFailure ==
    \A o \in Ops :
        (ops[o].kind = "retrieve" /\ ops[o].pc = "failed")
        => \A r \in Regions : ops[o].resp[r].st \notin {"hit", "null"}

\* a retrieve or search that waits while no region call of it is still going to
\* be answered: each has been answered or never will be
Blocked(o) ==
    /\ ops[o].pc \in {"reading", "searching"}
    /\ \A r \in Regions : ops[o].resp[r].st # "pending"

\* C9: a region that never answers does not block a retrieve or a search: the
\* call waiting on it can still take a step (the region call times out and
\* counts as failed), so the call completes.
C9_CallsComplete ==
    \A o \in Ops : Blocked(o) => ENABLED (FaultNext /\ ops'[o] # ops[o])

\* C10: on a hit, retrieve raises the weight it read by 0.01, capped at 1.0,
\* and the accessCount by one (0.89 and 0 give 0.90 and 1), fans the updated
\* record out to every region, each landing write stores it, and the call
\* returns the updated record.
C10_RetrieveReinforces ==
    /\ [](\A o \in Ops :
            (ops[o].kind = "retrieve" /\ ops[o].pc \in {"writing", "done"}
             /\ ops[o].found # NoMem)
            => /\ ops[o].mem.weight =
                    (IF ops[o].found.weight + 10 > 1000 THEN 1000
                     ELSE ops[o].found.weight + 10)
               /\ ops[o].mem.accessCount = ops[o].found.accessCount + 1
               /\ (ops[o].found.weight = 890 /\ ops[o].found.accessCount = 0)
                  => (ops[o].mem.weight = 900 /\ ops[o].mem.accessCount = 1)
               /\ \A w \in ops[o].writes : w.rec = ops[o].mem
               /\ ops[o].pc = "done"
                  => (ops[o].result.st = "memory" /\ ops[o].result.mem = ops[o].mem))
    /\ [][\A o \in Ops :
            /\ (ops'[o].kind = "retrieve" /\ ops[o].pc # "writing"
                /\ ops'[o].pc = "writing")
               => {w.region : w \in ops'[o].writes} = Regions
            /\ \A w \in ops[o].writes :
                  (ops[o].kind = "retrieve" /\ w \notin ops'[o].writes)
                  => w.rec \in region'[w.region]]_vars

\* a retrieve returned a record it read with weight 0.89 and accessCount 0
C10_Witness ==
    \E o \in Ops :
        /\ ops[o].kind = "retrieve" /\ ops[o].pc = "done"
        /\ ops[o].found.weight = 890 /\ ops[o].found.accessCount = 0
        /\ ops[o].result.mem.weight = 900 /\ ops[o].result.mem.accessCount = 1

\* C11: search is side-effect-free: no step of a search call (its start, a
\* region's answer, its return), whatever it matches, changes a record of any
\* region or an engine counter.
C11_SearchSideEffectFree ==
    [][\A o \in Ops :
          (ops'[o].kind = "search" /\ ops'[o] # ops[o])
          => (region' = region /\ memoryStats' = memoryStats)]_vars

\* a search returned records while the regions hold them
C11_Witness ==
    \E o \in Ops :
        /\ ops[o].kind = "search" /\ ops[o].pc = "done"
        /\ Len(ops[o].result.list) > 0
        /\ \A i \in 1..Len(ops[o].result.list) :
              \E r \in Regions : \E m \in region[r] : m.id = ops[o].result.list[i].id

\* the key the caller selected
C12_Key(m, sortBy) ==
    IF sortBy = "recent" THEN m.lastAccessed
    ELSE IF sortBy = "frequency" THEN m.accessCount
    ELSE m.weight

\* C12: the list a search returns is in descending order of the selected key
\* (weight also for an unknown key), and entries equal on the key are in
\* ascending id order.  Stated for the results in which no id appears twice.
C12_SearchOrdered ==
    \A o \in Ops :
        LET res == ops[o].result.list
            k(i) == C12_Key(res[i], ops[o].options.sortBy) IN
        (/\ ops[o].kind = "search" /\ ops[o].pc = "done"
         /\ \A i, j \in 1..Len(res) : i # j => res[i].id # res[j].id)
        => \A i, j \in 1..Len(res) :
              i < j => /\ k(i) >= k(j)
                       /\ k(i) = k(j) => res[i].id < res[j].id

\* the entries of the region results of search o that are at least minWeight,
\* as <<region, index>> pairs, and how often a record is among them
C13_Eligible(o, minWeight) ==
    {e \in Regions \X (1..MaxRecords + MaxStores) :
        /\ e[2] <= Len(ops[o].resp[e[1]].list)
        /\ ops[o].resp[e[1]].list[e[2]].weight >= minWeight}
C13_Times(o, minWeight, m) ==
    Cardinality({e \in C13_Eligible(o, minWeight) : ops[o].resp[e[1]].list[e[2]] = m})

\* C13: search returns the first `limit` entries, in sort order, of the region
\* results with weight >= minWeight (minWeight 0.1 and limit 20 when the caller
\* gives none): every returned entry is a region result of weight >= minWeight,
\* there are min(limit, number of such results) of them, and every such result
\* left out has a key no greater than any returned entry's.
C13_SearchFiltersAndLimits ==
    \A o \in Ops :
        (ops[o].kind = "search" /\ ops[o].pc = "done")
        => LET res == ops[o].result.list
               given == ops[o].options
               limit == IF given.maxResults.has THEN given.maxResults.v ELSE 20
               minWeight == IF given.minWeight.has THEN given.minWeight.v ELSE 100
               returned(m) == Cardinality({i \in 1..Len(res) : res[i] = m})
           IN /\ \A i \in 1..Len(res) : res[i].weight >= minWeight
              /\ Len(res) <= limit
              /\ Len(res) = Min(limit, Cardinality(C13_Eligible(o, minWeight)))
              /\ \A i \in 1..Len(res) :
                    returned(res[i]) <= C13_Times(o, minWeight, res[i])
              /\ \A e \in C13_Eligible(o, minWeight) :
                    LET m == ops[o].resp[e[1]].list[e[2]] IN
                    returned(m) < C13_Times(o, minWeight, m)
                    => \A i \in 1..Len(res) :
                          C12_Key(res[i], given.sortBy) >= C12_Key(m, given.sortBy)

\* a search with limit 1 and the default minWeight returned one entry while
\* the regions answered several entries at or above 0.1 and one below it
C13_Witness ==
    \E o \in Ops :
        /\ ops[o].kind = "search" /\ ops[o].pc = "done"
        /\ ops[o].options.maxResults = Given(1)
        /\ ~ops[o].options.minWeight.has
        /\ Cardinality(C13_Eligible(o, 100)) > 1
        /\ \E r \in Regions : \E i \in 1..Len(ops[o].resp[r].list) :
              ops[o].resp[r].list[i].weight < 100
        /\ Len(ops[o].result.list) = 1

\* the step starts consolidation pass o: the population is listed and processed
PassStarts(o) ==
    /\ ops[o].pc = "idle"
    /\ ops'[o].kind \in {"sws", "rem"}
    /\ ops'[o].pc # "failed"

\* the weight pass o gives the record m of its snapshot
PassWeight(op, m) ==
    IF \E c \in op.changed : c.id = m.id
    THEN (CHOOSE c \in op.changed : c.id = m.id).weight
    ELSE m.weight

\* C14: a pass strengthens a record exactly under its rule: a fast pass adds
\* 0.1, capped at 1.0, iff importance > 0.7 and the last access is less than 24
\* hours ago; a slow pass adds 0.05, capped at 1.0, iff importance > 0.5;
\* otherwise the weight is not raised (weight 0.6, importance > 0.7, accessed 2
\* hours ago, fast pass: 0.7).  The weight the pass gives the record is that
\* weight, less the decay when the last access is 7 days ago or more.
C14_StrengtheningRule ==
    [][\A o \in Ops : PassStarts(o) =>
          \A m \in ops'[o].snapshot :
             LET type == ops'[o].kind
                 age == now - m.lastAccessed
                 strengthened ==
                     IF type = "sws" /\ ImportanceAbove07(m, now) /\ age < 24
                     THEN (IF m.weight + 100 > 1000 THEN 1000 ELSE m.weight + 100)
                     ELSE IF type = "rem" /\ ImportanceAbove05(m, now)
                     THEN (IF m.weight + 50 > 1000 THEN 1000 ELSE m.weight + 50)
                     ELSE m.weight
             IN /\ age < 168 => PassWeight(ops'[o], m) = strengthened
                /\ age >= 168 => PassWeight(ops'[o], m) =
                                    (IF strengthened < 1 THEN 0 ELSE strengthened - 1)
                /\ (type = "sws" /\ m.weight = 600 /\ age = 2 /\ ImportanceAbove07(m, now))
                   => PassWeight(ops'[o], m) = 700]_vars

\* a fast pass took a record of weight 0.6 and importance > 0.7, accessed 2
\* hours before, to 0.7
C14_Witness ==
    \E o \in Ops :
        /\ ops[o].kind = "sws"
        /\ \E m \in ops[o].snapshot :
              /\ m.weight = 600 /\ now - m.lastAccessed = 2
              /\ ImportanceAbove07(m, now)
              /\ PassWeight(ops[o], m) = 700

C20_PassCount ==
    /\ [](\A o \in Ops : (ops[o].kind \in {"sws", "rem"} /\ ops[o].pc = "done") =>
             /\ ops[o].result.st = "count"
             /\ ops[o].result.n =
                   Cardinality({m \in ops[o].snapshot :
                                   \E c \in ops[o].changed :
                                      c.id = m.id /\ c.weight # m.weight})
             /\ \A c \in ops[o].changed : \E m \in ops[o].snapshot :
                   c.id = m.id /\ c.weight # m.weight)
    /\ [][\A o \in Ops :
            /\ PassStarts(o) =>
                  LET after(m) == ConsolidateOne(m, ops'[o].kind, now)
                      differ == {m \in ops'[o].snapshot : after(m).weight # m.weight} IN
                  /\ ops'[o].changed = {after(m) : m \in differ}
                  /\ ops'[o].writes =
                        {[region |-> r, rec |-> after(m)] : r \in Regions, m \in differ}
                  /\ \A m \in differ : after(m) = [m EXCEPT !.weight = after(m).weight]
                  /\ (ops'[o].pc = "done") = (differ = {})
            /\ ops[o].kind \in {"sws", "rem"} =>
                  /\ ops'[o].changed = ops[o].changed
                  /\ \A w \in ops[o].writes \ ops'[o].writes : w.rec \in region'[w.region]
                  /\ (ops'[o].pc = "done") = (ops'[o].writes = {})]_vars

\* a slow pass over two records returned 1: it raised one of them and left the
\* other, already at 1.0 and with importance > 0.5, as it was
C20_Witness ==
    \E o \in Ops :
        /\ ops[o].kind = "rem" /\ ops[o].pc = "done"
        /\ Cardinality(ops[o].snapshot) = 2
        /\ ops[o].result.n = 1
        /\ \E m \in ops[o].snapshot :
              /\ m.weight = 1000 /\ ImportanceAbove05(m, now)
              /\ PassWeight(ops[o], m) = 1000

\* C16: a consolidation pass changes nothing but weights: when a write-back of
\* a pass lands, also between the steps of a retrieve, no region gains or loses
\* a record id and the copy written over keeps every field other than weight
\* (accessCount and lastAccessed among them).  Stated for a pass that listed
\* the record as it was stored, with a weight in [0, 1].
C16_PassChangesOnlyWeight ==
    [][\A o \in Ops : \A w \in ops[o].writes :
          (/\ ops[o].kind \in {"sws", "rem"} /\ w \notin ops'[o].writes
           /\ \E s \in Ops : /\ ops[s].kind = "store"
                              /\ ops[s].mem \in ops[o].snapshot
                              /\ ops[s].mem.id = w.rec.id
                              /\ ops[s].mem.weight <= MaxWeight)
          => /\ KnownIds' = KnownIds
             /\ \A r \in Regions : r # w.region => region'[r] = region[r]
             /\ \A m \in region[w.region] :
                   IF m.id = w.rec.id
                   THEN \A m2 \in region'[w.region] :
                           m2.id = m.id => m2 = [m EXCEPT !.weight = m2.weight]
                   ELSE m \in region'[w.region]]_vars

\* C17: no record is ever deleted: a region that holds a record id holds it in
\* every later state, a record whose store returned is held by every region,
\* and a retrieve of a stored id returns the record, also when its weight has
\* decayed to 0.
C17_NoForgetting ==
    /\ [](\A o \in Ops :
            /\ (ops[o].kind = "store" /\ ops[o].pc = "done")
               => \A r \in Regions : Lookup(r, ops[o].id) # {}
            /\ (ops[o].kind = "retrieve" /\ ops[o].pc = "done" /\ ops[o].id \in Ids)
               => (ops[o].result.st = "memory" /\ ops[o].result.mem.id = ops[o].id))
    /\ [][\A r \in Regions : \A m \in region[r] : Lookup(r, m.id)' # {}]_vars

\* a retrieve returned a record it read with weight 0, after a pass decayed it
\* to 0
C17_Witness ==
    \E o, p \in Ops :
        /\ ops[o].kind = "retrieve" /\ ops[o].pc = "done"
        /\ ops[o].found.weight = 0
        /\ ops[o].result.st = "memory"
        /\ ops[p].kind \in {"sws", "rem"} /\ ops[p].pc = "done"
        /\ \E c \in ops[p].changed : c.id = ops[o].id /\ c.weight = 0

\* C18: the copies of a record converge: when no call is in flight and every
\* region's copy was written by a write-back (none is the record as stored),
\* all regions hold the same copy.  Stated for one retrieve and one
\* consolidation pass over a record stored with a weight in [0, 1].
C18_CopiesConverge ==
    \A id \in Ids :
        (/\ InFlight = {}
         /\ \A o \in Ops : ops[o].kind = "store" => ops[o].mem.weight <= MaxWeight
         /\ Cardinality(Passes) <= 1
         /\ Cardinality({o \in Ops : ops[o].kind = "retrieve"}) <= 1
         /\ \A m \in Copies(id) : \A o \in Ops : ops[o].kind = "store" => m # ops[o].mem)
        => Cardinality(Copies(id)) <= 1

\* C21: when a record's write-back fails in the middle of a pass, the pass
\* ends with a failure that carries the number of records it has already
\* written, and the weights it has written stay in the regions.
C21_PassFailureReportsCount ==
    [][\A o \in Ops :
          (ops[o].kind \in {"sws", "rem"} /\ ops'[o].pc = "failed")
          => /\ ops[o].pc = "writing"
                => /\ ops'[o].result.st = "error"
                   /\ ops'[o].result.n = Cardinality(ops'[o].landed)
             /\ \A r \in Regions : \A m \in region[r] :
                   m \in ops[o].changed => m \in region'[r]]_vars

\* C22: while no shutdown is in progress, an initialized engine owns exactly
\* two consolidation timers, one of each pass type, and an engine that is not
\* initialized owns none; at no time are more than two timers set.
C22_TwoTimersWhileInitialized ==
    /\ shuttingDown = 0 =>
          /\ isInitialized => /\ Len(consolidationTimers) = Len(NewTimers)
                              /\ consolidationTimers = NewTimers
          /\ ~isInitialized => consolidationTimers = <<>>
    /\ Len(consolidationTimers) <= Len(NewTimers)

\* the initial weights that the formula of C23 gives for the record's
\* emotional weight and some importance in [0, 1]
C23_Formula(memory) ==
    {calculateMemoryWeight(importance, memory.emotionalWeight) :
        importance \in 0..MaxWeight}

\* C23: the record that store creates has accessCount 0 and a weight of
\* min(1.0, 0.6 + 0.3*importance + 0.1*emotional) for an importance in
\* [0, 1], which lies in [0.6, 1.0].
C23_InitialWeight ==
    \A o \in Ops :
        ops[o].kind = "store" =>
            /\ ops[o].mem.accessCount = 0
            /\ ops[o].mem.weight \in C23_Formula(ops[o].mem)
            /\ ops[o].mem.weight \in 600..MaxWeight

\* C24: a retrieve of the id that store returned, which reads the record
\* exactly as store created it (never accessed, its weight the one the formula
\* of C23 gives), returns it with that same weight.
C24_RoundTrip ==
    \A o \in Ops : \A s \in Ops :
        (/\ ops[o].kind = "retrieve" /\ ops[o].result.st = "memory"
         /\ ops[s].kind = "store" /\ ops[s].id = ops[o].id
         /\ ops[s].result.st = "id"
         /\ ops[o].found = ops[s].mem
         /\ ops[s].mem.weight \in C23_Formula(ops[s].mem))
        => ops[o].result.mem.weight = ops[s].mem.weight

\* the weights a store call may supply or leave out
C25_InRange(x) == x \in 0..MaxWeight

\* C25: a store whose weight, emotional or semantic parameter is outside
\* [0, 1] returns no id, and no region ever holds a record with its id.
C25_InvalidInputRejected ==
    \A o \in Ops :
        (/\ ops[o].kind = "store"
         /\ ~ (/\ C25_InRange(ops[o].mem.weight)
               /\ C25_InRange(ops[o].mem.emotionalWeight)
               /\ C25_InRange(ops[o].mem.semanticWeight)))
        => /\ ops[o].result.st # "id"
           /\ Copies(ops[o].id) = {}

\* the delay of the claim, in milliseconds, for a weight in thousandths
C26_Delay(weight) ==
    IF weight >= 800 THEN 0
    ELSE IF weight >= 600 THEN 100
    ELSE IF weight >= 300 THEN 500
    ELSE IF weight >= 100 THEN 1500
    ELSE 3000

C27_SuppliedValuesStored ==
    [][\A o \in Ops : \A p \in StoreParams :
          StoreStart(o, p) =>
              /\ ops'[o].mem.weight =
                    IF p.initialWeight.has THEN p.initialWeight.v ELSE 1000
              /\ ops'[o].mem.emotionalWeight =
                    IF p.emotionalWeight.has THEN p.emotionalWeight.v ELSE 500
              /\ ops'[o].mem.semanticWeight =
                    IF p.semanticWeight.has THEN p.semanticWeight.v ELSE 500]_vars

\* C28: at most one write of the config file (an atomicWrite, of writeConfig
\* or of the recovery inside readConfig) is in progress at any time.
C28_OneWriteAtATime == Cardinality(Writing) <= 1

\* C29: every change of the main config file leaves it holding the complete
\* JSON of the config of a call that is writing, and a write that fails (its
\* cleanup ends) leaves the main file as it was and its temporary file
\* deleted.
C29_AtomicWrites ==
    [][/\ mainFile' # mainFile =>
             /\ mainFile'.st = "json"
             /\ \E c \in Writing : mainFile'.keys = calls[c].config
       /\ \A c \in Slots :
             (calls[c].pc = "cleanup" /\ calls'[c].pc # "cleanup") =>
                 /\ mainFile' = mainFile
                 /\ temps'[calls[c].tempPath].st = "absent"]_vars

\* the writes that ended were all writeConfig calls with a backup that
\* succeeded, and none is in progress
C30_OnlyWritesWithBackup ==
    /\ locks = {}
    /\ \A k \in 1..Len(writeLog) : writeLog[k].rotated

C36_RejectedUnlessInitialized ==
    [][/\ \A o \in Ops :
            (/\ ops[o].pc = "idle" /\ ops'[o].pc # "idle"
             /\ shuttingDown = 0 /\ consolidationTimers = <<>>)
            => /\ ops'[o].result.st = "notInitialized"
               /\ ops'[o].writes = {}
               /\ region' = region /\ memoryStats' = memoryStats /\ nextId' = nextId
       /\ (~isInitialized /\ isInitialized') => consolidationTimers' # consolidationTimers
      ]_vars

\* C32: (a) when the timeout wins the race of an attempt, processToast
\* resolves false, the fallback notification has been shown exactly once, the
\* toast is not retried, and the first queued toast, if any, is started in the
\* same step; (b) every attempt that is racing finishes; (c) every queued toast
\* leaves the queue.
C32_TimeoutProtection ==
    /\ [][\A t \in Toasts :
             (toasts[t].pc = "racing" /\ toasts'[t].last = "timeout") =>
                 /\ toasts'[t].pc = "done" /\ toasts'[t].result = "false"
                 /\ toasts'[t].fallbacks = 1
                 /\ toasts'[t].retries = toasts[t].retries
                 /\ toasts'[t].attempts = toasts[t].attempts
                 /\ IF queue # <<>>
                    THEN /\ toasts'[Head(queue)].pc = "racing"
                         /\ queue' = Tail(queue)
                    ELSE queue' = queue]_vars
    /\ \A t \in Toasts : (toasts[t].pc = "racing") ~> (toasts[t].pc # "racing")
    /\ \A t \in Toasts : (toasts[t].pc = "queued") ~> (toasts[t].pc # "queued")

\* toast 1 timed out after the default timeout on its first attempt, toast 2
\* is being processed and toast 3 waits in the queue
C32_Witness ==
    /\ toasts[1].pc = "done" /\ toasts[1].last = "timeout"
    /\ toasts[1].timeout = defaultTimeout /\ toasts[1].attempts = 1
    /\ toasts[1].result = "false" /\ toasts[1].fallbacks = 1
    /\ toasts[2].pc = "racing"
    /\ queue = <<3>>

\* the toasts in progress: an attempt is racing, or the toast waits to retry
C33_InProgress == {t \in Toasts : toasts[t].pc \in {"racing", "waiting"}}

\* C33: at most one toast is in progress at any time (so a queued toast starts
\* only after the toast in progress has finished).
C33_ToastsSerialized == Cardinality(C33_InProgress) <= 1

\* C34: the waits before the retries of a toast grow by a constant factor
\* greater than one: each wait is longer than the one before, and the ratio of
\* consecutive waits is the same.
C34_ExponentialBackoff ==
    \A t \in Toasts :
        LET waits == toasts[t].waits IN
        /\ \A k \in 2..Len(waits) : waits[k] > waits[k - 1]
        /\ \A k \in 3..Len(waits) : waits[k] * waits[k - 2] = waits[k - 1] * waits[k - 1]

\* C35: every episodic memory that storeEpisodicMemory stored is, at any later
\* time and whatever its weight, present in the hippocampus store under its
\* memory id.
C35_NeverForgotten ==
    \A i \in 1..Len(memoryWeights) :
        \E k \in hippocampusKeys : k.id = memoryWeights[i].id

\* the main file cannot be used: it is missing, empty or unparsable, or its
\* value is not an object
C31_Unusable == mainFile.st # "json" \/ mainFile.keys = Scalar

\* what recovery hands out: the content of the lowest-numbered backup that
\* can be read and parsed, or the default config when there is none
C31_Recovered(call) ==
    LET readable == {k \in 1..backupCount : backups[k].st = "json"} IN
    IF readable = {} THEN call.defaultConfig
    ELSE backups[CHOOSE k \in readable : \A j \in readable : k <= j].keys

C37_Holders ==
    {c \in Slots : /\ calls[c].phase = "write"
                   /\ calls[c].pc \in {"rotate", "copy", "open", "fill", "verify",
                                       "rename", "cleanup"}}

\* C37: the lock is held exactly while one writeConfig call is between taking
\* it and returning: a call that returned holds no lock, and a call that timed
\* out waiting has not released the lock of the writer.
C37_LockOnlyWhileWriting ==
    /\ configPath \in locks <=> C37_Holders # {}
    /\ Cardinality(C37_Holders) <= 1

\* a writeConfig call timed out waiting and returned false while the writer
\* still holds the lock
C37_Witness ==
    /\ configPath \in locks
    /\ writeLog = <<>>
    /\ \E c \in Slots : \E d \in Slots :
          /\ calls[c].kind = "write" /\ calls[c].result = "false"
          /\ d \in C37_Holders

\* C38: once two updateConfig calls for different keys have both returned
\* true (every write that ended was a successful writeConfig), the config
\* file holds the keys of both.
C38_BothUpdatesTakeEffect ==
    \A c \in Slots : \A d \in Slots :
        (/\ c # d
         /\ calls[c].kind = "update" /\ calls[c].result = "true"
         /\ calls[d].kind = "update" /\ calls[d].result = "true"
         /\ calls[c].updates # calls[d].updates
         /\ \A k \in 1..Len(writeLog) : writeLog[k].rotated)
        => /\ mainFile.st = "json"
           /\ calls[c].updates \subseteq mainFile.keys
           /\ calls[d].updates \subseteq mainFile.keys

\* C40: every value that readConfig returns is a non-null object.
C40_ReturnsValidConfig ==
    \A c \in Slots :
        (calls[c].kind = "read" /\ calls[c].result = "config") =>
            calls[c].config # Scalar

\* C39: a toast is attempted at most maxRetries + 1 times; a toast that ended
\* on an error has used all its retries, its fallback notification has been
\* shown exactly once and its result is false; a toast that ended on a
\* completed toast call has the result true and no fallback notification.
C39_BoundedRetries ==
    \A t \in Toasts :
        /\ toasts[t].attempts <= maxRetries + 1
        /\ toasts[t].retries <= maxRetries
        /\ toasts[t].pc \in {"racing", "waiting", "done"} =>
              toasts[t].attempts = toasts[t].retries + (IF toasts[t].pc = "waiting" THEN 0 ELSE 1)
        /\ (toasts[t].pc = "done" /\ toasts[t].last = "error") =>
              /\ toasts[t].retries = maxRetries
              /\ toasts[t].fallbacks = 1
              /\ toasts[t].result = "false"
        /\ (toasts[t].pc = "done" /\ toasts[t].last = "completed") =>
              /\ toasts[t].result = "true"
              /\ toasts[t].fallbacks = 0

\* toast 1 failed maxRetries + 1 times and ended with the fallback, toast 2
\* succeeded on a retry
C39_Witness ==
    /\ toasts[1].pc = "done" /\ toasts[1].last = "error"
    /\ toasts[1].attempts = maxRetries + 1 /\ toasts[1].fallbacks = 1
    /\ toasts[1].result = "false"
    /\ toasts[2].pc = "done" /\ toasts[2].last = "completed"
    /\ toasts[2].retries > 0 /\ toasts[2].result = "true" /\ toasts[2].fallbacks = 0

====
